---- MODULE Spec2Model ----
(***************************************************************************)
(* Retrieval-and-training subsystem of the government scheme chatbot:      *)
(* data acquisition (dataScraper.js), the training pipeline and its        *)
(* scheduler (ragTrainer.js), the training routes (routes/training.js)     *)
(* and the vector index (vectorDB.js).                                     *)
(*                                                                         *)
(* Strings whose characters matter (scheme names, categories) are          *)
(* sequences of one-character strings; identifiers are TLA+ strings.       *)
(***************************************************************************)
EXTENDS Integers, Sequences, FiniteSets, TLC

VARIABLES
  \* ---- cleanAndDeduplicateData applied to a drawn input (SpecDedup)
  dInput,             \* the `schemes` argument
  dOutput,            \* the returned `cleaned` array
  dPc,                \* "start" | "done"
  \* ---- fetchAllSchemeData under a drawn environment (SpecFetch)
  fEnv,               \* what the sources and the file system answer
  fOut,               \* how the call ended: raised, or the returned array
  fPc,                \* "start" | "done"
  \* ---- one function applied to a drawn argument (SpecChunk, SpecHash, ...)
  uIn,                \* the argument
  uOut,               \* what the call returned or did
  uPc,                \* "start" | "done"
  \* ---- the process: scheduler service, routes, trainer runs (Spec)
  clock,              \* Date.now(), in ticks; stamps lastUpdated
  dataFile,           \* data/scraped_schemes.json: whether it exists, its records
  snapshot,           \* data/training_results.json
  isTraining,         \* ScheduledTrainingService.isTraining
  lastTrainingTime,   \* ScheduledTrainingService.lastTrainingTime
  useLocalData,       \* process.env.USE_LOCAL_DATA === 'true'
  task,               \* one record per caller: position and locals
  starts,             \* number of handler invocations started so far
  \* ---- the vector index (Spec and SpecVec)
  llmKind,            \* which embedding service vectorDB.js constructed
  collection,         \* module variable `collection`: "undefined" | "set"
  chroma,             \* documents held by the external collection
  inMemoryVectors,    \* module array inMemoryVectors
  inMemoryEmbeddings, \* module array inMemoryEmbeddings
  vPc,                \* position of initializeVectorDB
  vLog,               \* what the last vector-index call did and returned
  upserted            \* per scheme id, the text of its latest stored upsert

dedupVars == <<dInput, dOutput, dPc>>
fetchVars == <<fEnv, fOut, fPc>>
unitVars  == <<uIn, uOut, uPc>>
procVars  == <<clock, dataFile, snapshot, isTraining, lastTrainingTime,
               useLocalData, task, starts>>
indexVars == <<llmKind, collection, chroma, inMemoryVectors, inMemoryEmbeddings>>
vecVars   == <<vPc, vLog, upserted>>
procVarsButTask == <<clock, dataFile, snapshot, isTraining, lastTrainingTime,
                     useLocalData, starts>>
vars      == <<dedupVars, fetchVars, unitVars, procVars, indexVars, vecVars>>

-----------------------------------------------------------------------------
(* Strings *)

\* String.prototype.toLowerCase on one character of the alphabet in use
LowerChar(c) ==
  CASE c = "A" -> "a"
    [] c = "B" -> "b"
    [] c = "C" -> "c"
    [] c = "G" -> "g"
    [] c = "P" -> "p"
    [] OTHER   -> c

ToLowerCase(s) == [i \in 1..Len(s) |-> LowerChar(s[i])]

RECURSIVE TrimStart(_)
TrimStart(s) ==
  IF s # <<>> /\ Head(s) = " " THEN TrimStart(Tail(s)) ELSE s

RECURSIVE TrimEnd(_)
TrimEnd(s) ==
  IF s # <<>> /\ s[Len(s)] = " " THEN TrimEnd(SubSeq(s, 1, Len(s) - 1)) ELSE s

\* String.prototype.trim
Trim(s) == TrimEnd(TrimStart(s))

\* the literal 'General'
General == <<"G", "e", "n", "e", "r", "a", "l">>

\* the template `${name.toLowerCase()}-${category.toLowerCase()}`
DedupKey(scheme) ==
  ToLowerCase(scheme.name) \o <<"-">> \o ToLowerCase(scheme.category)

-----------------------------------------------------------------------------
(* dataScraper.js: cleanAndDeduplicateData *)

\* the object literal cleanedScheme, restricted to the fields the pipeline reads
CleanedScheme(scheme, now) ==
  [ id          |-> scheme.id,
    name        |-> Trim(scheme.name),
    category    |-> IF scheme.category = <<>> THEN General ELSE scheme.category,
    lastUpdated |-> now ]

\* the mutant of KeepScheme: the `!seen.has(key)` test is dropped
KeepSchemeNoSeen(scheme, seen) ==
  scheme.name # <<>> /\ Trim(scheme.name) # <<>>

\* `!seen.has(key) && scheme.name && scheme.name.trim()`
KeepScheme(scheme, seen) ==
  /\ DedupKey(scheme) \notin seen
  /\ scheme.name # <<>>
  /\ Trim(scheme.name) # <<>>

RECURSIVE CleanLoop(_, _, _, _)
CleanLoop(schemes, seen, cleaned, now) ==
  IF schemes = <<>> THEN cleaned
  ELSE LET scheme == Head(schemes) IN
       IF KeepScheme(scheme, seen)
       THEN CleanLoop(Tail(schemes), seen \cup {DedupKey(scheme)},
                      Append(cleaned, CleanedScheme(scheme, now)), now)
       ELSE CleanLoop(Tail(schemes), seen, cleaned, now)

CleanAndDeduplicateData(schemes, now) == CleanLoop(schemes, {}, <<>>, now)

-----------------------------------------------------------------------------
(* Bounds and input alphabets *)

MaxLen == 3      \* longest input list drawn for cleanAndDeduplicateData

\* names: plain, its upper-case variant, blank, and one ending in the separator
DedupNames == { <<"a">>, <<"A">>, <<" ">>, <<"a", "-">> }
\* categories: absent, and one that is the separator
DedupCategories == { <<>>, <<"-">> }

\* the i-th record of a drawn input: ids differ by position
DedupRecord(i, name, category) ==
  [ id |-> "in-" \o ToString(i), name |-> name, category |-> category ]

DedupInputs ==
  UNION { { [i \in 1..n |-> DedupRecord(i, nm[i], ct[i])] :
              nm \in [1..n -> DedupNames], ct \in [1..n -> DedupCategories] } :
          n \in 0..MaxLen }

-----------------------------------------------------------------------------
(* vectorDB.js: embeddings *)

HashDim     == 384    \* new Array(384) of the services' hash embedding
FallbackDim == 1536   \* new Array(1536) of vectorDB.js generateSimpleEmbedding
RemoteDim   == 768    \* length of the vectors the default Ollama embedding
                      \* model (nomic-embed-text) returns

LlmKinds == {"simple", "ollama", "huggingface"}

\* the template string of createSchemeText: the fields of a scheme that reach it
CreateSchemeText(scheme) == [name |-> scheme.name, category |-> scheme.category]

\* what one call of the embedding service may meet: the backend answering or not
EmbedEnvs(kind) == IF kind = "simple" THEN {"up"} ELSE {"up", "down"}

\* localLLM.generateEmbedding(text) for a string: the three services.
\* An embedding is kept as its length, the text it was made from and its maker.
ServiceEmbedding(kind, text, env) ==
  CASE kind = "simple" -> [dim |-> HashDim, text |-> text, via |-> "hash"]
    [] kind = "ollama" ->
         IF env = "up" THEN [dim |-> RemoteDim, text |-> text, via |-> "model"]
         ELSE [dim |-> HashDim, text |-> text, via |-> "hash"]
    [] OTHER ->
         IF env = "up" THEN [dim |-> HashDim, text |-> text, via |-> "model"]
         ELSE [dim |-> HashDim, text |-> text, via |-> "hash"]

\* the mutant of GenerateEmbedding: a backend that does not answer makes the
\* call reject
GenerateEmbeddingNoFallback(kind, text, wellFormed, env) ==
  IF wellFormed /\ env = "up"
  THEN [raised |-> FALSE, embedding |-> ServiceEmbedding(kind, text, env)]
  ELSE [raised |-> TRUE,  embedding |-> [dim |-> 0, text |-> text, via |-> "none"]]

\* vectorDB.js generateEmbedding. For a value that is no string both the
\* service and the module's own fallback throw at text.toLowerCase().
GenerateEmbedding(kind, text, wellFormed, env) ==
  IF wellFormed
  THEN [raised |-> FALSE, embedding |-> ServiceEmbedding(kind, text, env)]
  ELSE [raised |-> TRUE,  embedding |-> [dim |-> 0, text |-> text, via |-> "none"]]

\* String.prototype.charCodeAt(0) on one character of the alphabet in use
CharCode(c) ==
  CASE c = "a" -> 97
    [] c = "b" -> 98
    [] c = "A" -> 65
    [] c = "B" -> 66
    [] OTHER   -> 32

RECURSIVE SplitLoop(_, _, _, _)
\* split(/\s+/) from left to right: cur is the piece being read, acc the
\* pieces closed so far, inWs whether the last character read was a space
\* (the one character of the alphabet in use that /\s/ matches)
SplitLoop(rest, cur, acc, inWs) ==
  IF rest = <<>> THEN Append(acc, cur)
  ELSE IF Head(rest) = " "
       THEN IF inWs THEN SplitLoop(Tail(rest), cur, acc, TRUE)
            ELSE SplitLoop(Tail(rest), <<>>, Append(acc, cur), TRUE)
       ELSE SplitLoop(Tail(rest), Append(cur, Head(rest)), acc, FALSE)

\* text.split(/\s+/): a text that starts or ends with spaces, and the empty
\* text, give an empty piece
SplitSpaces(text) == SplitLoop(text, <<>>, <<>>, FALSE)

RECURSIVE WordHash(_, _)
\* word.split('').reduce((a, b) => { a = ((a << 5) - a) + b.charCodeAt(0);
\* return a & a; }, 0) from accumulator a on. `a << 5` and `a & a` are 32-bit
\* operations; on the words drawn here no value leaves the 32-bit range,
\* where both leave the arithmetic value as it is.
WordHash(word, a) ==
  IF word = <<>> THEN a
  ELSE WordHash(Tail(word), ((a * 32) - a) + CharCode(Head(word)))

\* Math.abs(hash) % dim
WordIndex(word, dim) ==
  LET h == WordHash(word, 0) IN (IF h < 0 THEN -h ELSE h) % dim

\* the mutant of SimpleEmbedding: the first component also counts the
\* vectors the index holds
SimpleEmbeddingCountsIndex(text, dim) ==
  LET words == SplitSpaces(ToLowerCase(text)) IN
  [j \in 1..dim |->
     Cardinality({k \in 1..Len(words) : WordIndex(words[k], dim) = j - 1})
       + (IF j = 1 THEN Len(inMemoryVectors) ELSE 0)]

\* the hash embedding (simpleLocalLLM.js generateEmbedding and the
\* generateSimpleEmbedding of the other services): component j of the array
\* is element j + 1 of the sequence
SimpleEmbedding(text, dim) ==
  LET words == SplitSpaces(ToLowerCase(text)) IN
  [j \in 1..dim |->
     Cardinality({k \in 1..Len(words) : WordIndex(words[k], dim) = j - 1})]

\* the metadata object built at every add
Metadata(scheme) == [id |-> scheme.id, name |-> scheme.name, category |-> scheme.category]

\* the element pushed to inMemoryVectors
MemoryVector(scheme) ==
  [id |-> scheme.id, text |-> CreateSchemeText(scheme), metadata |-> Metadata(scheme)]

\* one document as the external collection keeps it
ChromaDoc(scheme, embedding) ==
  [id |-> scheme.id, text |-> CreateSchemeText(scheme),
   metadata |-> Metadata(scheme), embedding |-> embedding]

\* embeddings of a list of schemes, one service call each
EmbedAll(kind, schemes, envs) ==
  [i \in 1..Len(schemes) |->
     ServiceEmbedding(kind, CreateSchemeText(schemes[i]), envs[i])]

-----------------------------------------------------------------------------
(* The external collection (chromadb client): add and query *)

\* the dimensions a list of embeddings has
DimsOf(embs) == {embs[i].dim : i \in 1..Len(embs)}

\* collection.add accepts only vectors of the collection's one dimension
ChromaAccepts(docs, embs) ==
  Cardinality(DimsOf(embs) \cup {docs[i].embedding.dim : i \in 1..Len(docs)}) <= 1

\* the outcomes collection.add may have: "error" (the call rejects) is always
\* possible, "ok" only for vectors the collection accepts
AddOutcomes(docs, embs) ==
  IF ChromaAccepts(docs, embs) THEN {"ok", "error"} ELSE {"error"}

RECURSIVE ChromaAppend(_, _, _)
\* add never overwrites: a document whose id is already held is left as it is
ChromaAppend(docs, schemes, embs) ==
  IF schemes = <<>> THEN docs
  ELSE LET held == \E i \in 1..Len(docs) : docs[i].id = Head(schemes).id IN
       ChromaAppend(IF held THEN docs
                    ELSE Append(docs, ChromaDoc(Head(schemes), Head(embs))),
                    Tail(schemes), Tail(embs))

\* the mutant of Take: the slice is not bounded
TakeAll(s, n) == s

\* the first n elements of a sequence
Take(s, n) == SubSeq(s, 1, IF n < Len(s) THEN n ELSE Len(s))

-----------------------------------------------------------------------------
(* vectorDB.js: search *)

\* n / (Math.sqrt(n) * Math.sqrt(n)) in IEEE 754 double arithmetic, as its
\* distance from 1 in units of 2^-53: the product of the two rounded roots is
\* rounded again and need not be n
UnitQuotient(n) ==
  CASE n = 1 -> 0
    [] n = 2 -> -2
    [] n = 3 -> 2
    [] n = 4 -> 0
    [] n = 5 -> -2
    [] OTHER -> 2

\* a[1]*b[1] + ... + a[n]*b[n], the sums of the loop of cosineSimilarity
Dot(a, b) ==
  LET RECURSIVE Upto(_)
      Upto(i) == IF i = 0 THEN 0 ELSE Upto(i - 1) + a[i] * b[i]
  IN Upto(Len(a))

\* cosineSimilarity(vecA, vecB) on vectors of small integers. The value
\* returned is kept as the exact quotient dot / sqrt(normA2 * normB2) and
\* `off`, what the double arithmetic puts on top of it in units of 2^-53;
\* off is only looked up where the exact quotient is 1 or -1, which for
\* components of magnitude at most 1 means vecB is vecA or its negation.
CosineSimilarity(vecA, vecB) ==
  IF Len(vecA) # Len(vecB)
  THEN [threw |-> TRUE, dot |-> 0, normA2 |-> 0, normB2 |-> 0, off |-> 0]
  ELSE LET dot    == Dot(vecA, vecB)
           normA2 == Dot(vecA, vecA)
           normB2 == Dot(vecB, vecB) IN
       IF normA2 = 0 \/ normB2 = 0
       THEN [threw |-> FALSE, dot |-> 0, normA2 |-> 1, normB2 |-> 1, off |-> 0]
       ELSE [threw |-> FALSE, dot |-> dot, normA2 |-> normA2, normB2 |-> normB2,
             off |-> IF dot * dot = normA2 * normB2 THEN UnitQuotient(normA2) ELSE 0]

\* The model keeps no vector components: the score of a stored vector against
\* a query is 1 when both were made from the same text and 0 otherwise.
Similarity(q, e) == IF q.text = e.text THEN 1 ELSE 0

\* cosineSimilarity throws 'Vectors must have the same length'
CannotCompare(embs, q) == \E i \in 1..Len(embs) : embs[i].dim # q.dim

RECURSIVE IndexesWith(_, _, _, _)
\* the indexes i >= from of embs whose score against q is score, ascending
IndexesWith(embs, q, score, from) ==
  IF from > Len(embs) THEN <<>>
  ELSE (IF Similarity(q, embs[from]) = score THEN <<from>> ELSE <<>>)
       \o IndexesWith(embs, q, score, from + 1)

\* the mutant of SortedIndexes: the comparator is a.similarity - b.similarity
SortedIndexesAscending(embs, q) ==
  IndexesWith(embs, q, 0, 1) \o IndexesWith(embs, q, 1, 1)

\* similarities.sort((a, b) => b.similarity - a.similarity): stable, descending
SortedIndexes(embs, q) == IndexesWith(embs, q, 1, 1) \o IndexesWith(embs, q, 0, 1)

\* one element of the list a search returns
SearchResult(metadata, score) ==
  [id |-> metadata.id, name |-> metadata.name, category |-> metadata.category,
   score |-> score, metadata |-> metadata]

\* searchInMemoryVectors; raises when a stored vector cannot be compared
SearchInMemoryVectors(vecs, embs, q, limit) ==
  IF CannotCompare(embs, q)
  THEN [raised |-> TRUE, results |-> <<>>]
  ELSE LET top == Take(SortedIndexes(embs, q), limit) IN
       [raised |-> FALSE,
        results |-> [k \in 1..Len(top) |->
                       SearchResult(vecs[top[k]].metadata, Similarity(q, embs[top[k]]))]]

\* the outcomes collection.query may have: it rejects a vector of another
\* dimension than the collection's, and may fail at any call
QueryOutcomes(docs, q) ==
  IF \E i \in 1..Len(docs) : docs[i].embedding.dim # q.dim
  THEN {"error"} ELSE {"ok", "error"}

\* collection.query followed by the map over results.metadatas[0]
SearchChroma(docs, q, limit, outcome) ==
  IF outcome = "ok" /\ outcome \in QueryOutcomes(docs, q)
  THEN LET embs == [i \in 1..Len(docs) |-> docs[i].embedding]
           top  == Take(SortedIndexes(embs, q), limit) IN
       [raised |-> FALSE,
        results |-> [k \in 1..Len(top) |->
                       SearchResult(docs[top[k]].metadata, Similarity(q, embs[top[k]]))]]
  ELSE [raised |-> TRUE, results |-> <<>>]

\* the try block of searchSimilarSchemes. ix is the module state
\* [collection, chroma, vecs, embs]; query is the text, wellFormed whether it
\* is a string; embEnv and queryOutcome are what the backends do at this call.
SearchTry(ix, kind, query, wellFormed, limit, embEnv, queryOutcome) ==
  LET g == GenerateEmbedding(kind, query, wellFormed, embEnv)
      q == g.embedding IN
  IF g.raised
  THEN [raised |-> TRUE, results |-> <<>>, backend |-> "none", cause |-> "embed", qdim |-> 0]
  ELSE IF ix.collection = "set"
  THEN LET r == SearchChroma(ix.chroma, q, limit, queryOutcome) IN
       [raised |-> r.raised, results |-> r.results, backend |-> "external",
        cause |-> IF r.raised THEN "query" ELSE "none", qdim |-> q.dim]
  ELSE LET r == SearchInMemoryVectors(ix.vecs, ix.embs, q, limit) IN
       [raised |-> r.raised, results |-> r.results, backend |-> "memory",
        cause |-> IF r.raised THEN "compare" ELSE "none", qdim |-> q.dim]

\* the mutant of SearchSimilarSchemes: the catch clause is missing
SearchSimilarSchemesNoCatch(ix, kind, query, wellFormed, limit, embEnv, queryOutcome) ==
  SearchTry(ix, kind, query, wellFormed, limit, embEnv, queryOutcome)

\* searchSimilarSchemes: `catch (error) { return []; }`
SearchSimilarSchemes(ix, kind, query, wellFormed, limit, embEnv, queryOutcome) ==
  LET r == SearchTry(ix, kind, query, wellFormed, limit, embEnv, queryOutcome) IN
  IF r.raised THEN [r EXCEPT !.raised = FALSE, !.results = <<>>] ELSE r

-----------------------------------------------------------------------------
(* vectorDB.js: adding schemes *)

\* the mutant of PushAll: only the first of the two pushes is made
PushAllVectorsOnly(ix, schemes, embs) ==
  [ix EXCEPT !.vecs = ix.vecs \o [i \in 1..Len(schemes) |-> MemoryVector(schemes[i])]]

\* the in-memory branch of the add functions: the two pushes
PushAll(ix, schemes, embs) ==
  [ix EXCEPT !.vecs = ix.vecs \o [i \in 1..Len(schemes) |-> MemoryVector(schemes[i])],
             !.embs = ix.embs \o embs]

\* addSchemeToVectorDB(scheme): the error of collection.add is caught and logged
AddSchemeToVectorDB(ix, kind, scheme, embEnv, addOutcome) ==
  LET emb == ServiceEmbedding(kind, CreateSchemeText(scheme), embEnv) IN
  IF ix.collection = "set"
  THEN IF addOutcome = "ok" /\ addOutcome \in AddOutcomes(ix.chroma, <<emb>>)
       THEN [ix |-> [ix EXCEPT !.chroma = ChromaAppend(ix.chroma, <<scheme>>, <<emb>>)],
             raised |-> FALSE, failed |-> FALSE, backend |-> "external"]
       ELSE [ix |-> ix, raised |-> FALSE, failed |-> TRUE, backend |-> "external"]
  ELSE [ix |-> PushAll(ix, <<scheme>>, <<emb>>),
        raised |-> FALSE, failed |-> FALSE, backend |-> "memory"]

RECURSIVE AddChunks(_, _, _, _, _, _)
\* the loop `for (start = 0; start < schemes.length; start += batchSize)`:
\* docs is the collection so far, adds the ids of the batches handed to
\* collection.add so far. The first rejected add ends the loop by its
\* exception. Returned: `batches`, the ids of every batch handed over, and
\* `adds`, their sizes.
AddChunks(docs, schemes, embs, outcomes, batchSize, adds) ==
  IF schemes = <<>>
  THEN [docs |-> docs, raised |-> FALSE, batches |-> adds,
        adds |-> [i \in 1..Len(adds) |-> Len(adds[i])]]
  ELSE LET batch == Take(schemes, batchSize)
           bembs == Take(embs, batchSize)
           rest  == SubSeq(schemes, Len(batch) + 1, Len(schemes))
           rembs == SubSeq(embs, Len(batch) + 1, Len(embs))
           ok    == Head(outcomes) = "ok" /\ "ok" \in AddOutcomes(docs, bembs)
           now   == Append(adds, [i \in 1..Len(batch) |-> batch[i].id])
       IN IF ok
          THEN AddChunks(ChromaAppend(docs, batch, bembs), rest, rembs,
                         Tail(outcomes), batchSize, now)
          ELSE [docs |-> docs, raised |-> TRUE, batches |-> now,
                adds |-> [i \in 1..Len(now) |-> Len(now[i])]]

\* addSchemesToVectorDB(schemes, batchSize): `catch (error) { throw error; }`
AddSchemesToVectorDB(ix, kind, schemes, batchSize, embEnvs, outcomes) ==
  IF schemes = <<>>
  THEN [ix |-> ix, raised |-> FALSE, backend |-> "none", adds |-> <<>>,
        batches |-> <<>>]
  ELSE LET embs == EmbedAll(kind, schemes, embEnvs) IN
       IF ix.collection = "set"
       THEN LET r == AddChunks(ix.chroma, schemes, embs, outcomes, batchSize, <<>>) IN
            [ix |-> [ix EXCEPT !.chroma = r.docs], raised |-> r.raised,
             backend |-> "external", adds |-> r.adds, batches |-> r.batches]
       ELSE [ix |-> PushAll(ix, schemes, embs), raised |-> FALSE,
             backend |-> "memory", adds |-> <<>>, batches |-> <<>>]

\* the module state as one record, and its assignment back
Index == [collection |-> collection, chroma |-> chroma,
          vecs |-> inMemoryVectors, embs |-> inMemoryEmbeddings]

SetIndex(ix) ==
  /\ collection' = ix.collection
  /\ chroma' = ix.chroma
  /\ inMemoryVectors' = ix.vecs
  /\ inMemoryEmbeddings' = ix.embs

-----------------------------------------------------------------------------
(* The vector index on its own: startup, then searches and adds (SpecVec) *)

MaxIndex  == 2   \* adds stop once the index in use holds this many entries
BatchSize == 1   \* the batchSize argument (process.env.BATCH_SIZE)
MaxLimit  == 2   \* largest `limit` of a search

NameA == <<"a">>
NameB == <<"b">>
CatC  == <<"c">>

\* the schemes the callers hand over: s1 in two versions, and s2
VecSchemes ==
  { [id |-> "s1", name |-> NameA, category |-> CatC],
    [id |-> "s1", name |-> NameB, category |-> CatC],
    [id |-> "s2", name |-> NameA, category |-> CatC] }

VecIds == {sch.id : sch \in VecSchemes}

\* the lists handed to addSchemesToVectorDB: empty, one scheme, two schemes
VecBatches ==
  {<<>>} \cup {<<a>> : a \in VecSchemes} \cup {<<a, b>> : a, b \in VecSchemes}

\* getAllSchemes() at startup
DbSchemes == << [id |-> "s1", name |-> NameA, category |-> CatC] >>

\* the texts a search may ask for
VecQueries == {CreateSchemeText(sch) : sch \in VecSchemes}

\* the `query` arguments: each of the texts, and a value that is no string
VecQueryArgs ==
  {[query |-> q, wellFormed |-> TRUE] : q \in VecQueries}
  \cup {[query |-> [name |-> <<>>, category |-> <<>>], wellFormed |-> FALSE]}

\* what the external collection may do at one call of the module: nothing is
\* asked of it while `collection` is unset
CallOutcomes == IF collection = "set" THEN {"ok", "error"} ELSE {"ok"}

NoLog == [op |-> "none", backend |-> "none", raised |-> FALSE, cause |-> "none",
          results |-> <<>>, qdim |-> 0, stored |-> 0]

RECURSIVE Upsert(_, _, _)
\* upserted after the first n schemes of a list were stored, in order
Upsert(u, schemes, n) ==
  IF n = 0 \/ schemes = <<>> THEN u
  ELSE Upsert([u EXCEPT ![Head(schemes).id] = <<CreateSchemeText(Head(schemes))>>],
              Tail(schemes), n - 1)

RECURSIVE SumSeq(_)
SumSeq(s) == IF s = <<>> THEN 0 ELSE Head(s) + SumSeq(Tail(s))

\* the entries of the store the calls use: `if (collection)`
ActiveEntries ==
  IF collection = "set"
  THEN [i \in 1..Len(chroma) |->
          [id |-> chroma[i].id, text |-> chroma[i].text, dim |-> chroma[i].embedding.dim]]
  ELSE [i \in 1..Len(inMemoryVectors) |->
          [id |-> inMemoryVectors[i].id, text |-> inMemoryVectors[i].text,
           dim |-> inMemoryEmbeddings[i].dim]]

\* initializeVectorDB: new ChromaClient(...)
VInitClient ==
  /\ vPc = "client"
  /\ \E ok \in BOOLEAN : vPc' = IF ok THEN "getCollection" ELSE "fallback"
  /\ UNCHANGED <<dedupVars, fetchVars, unitVars, procVars, indexVars, vLog, upserted>>

\* collection = await chromaClient.getCollection(...)
VGetCollection ==
  /\ vPc = "getCollection"
  /\ \E ok \in BOOLEAN :
       IF ok THEN collection' = "set" /\ vPc' = "count"
       ELSE collection' = collection /\ vPc' = "createCollection"
  /\ UNCHANGED <<dedupVars, fetchVars, unitVars, procVars, llmKind, chroma, inMemoryVectors,
                 inMemoryEmbeddings, vLog, upserted>>

\* collection = await chromaClient.createCollection(...), in the inner catch
VCreateCollection ==
  /\ vPc = "createCollection"
  /\ \E ok \in BOOLEAN :
       IF ok THEN collection' = "set" /\ vPc' = "count"
       ELSE collection' = collection /\ vPc' = "fallback"
  /\ UNCHANGED <<dedupVars, fetchVars, unitVars, procVars, llmKind, chroma, inMemoryVectors,
                 inMemoryEmbeddings, vLog, upserted>>

\* const count = await collection.count()
VCount ==
  /\ vPc = "count"
  /\ \E ok \in BOOLEAN :
       vPc' = IF ~ok THEN "fallback" ELSE IF Len(chroma) = 0 THEN "populate" ELSE "ready"
  /\ UNCHANGED <<dedupVars, fetchVars, unitVars, procVars, indexVars, vLog, upserted>>

\* populateVectorDB(): every scheme embedded, then one collection.add
VPopulate ==
  /\ vPc = "populate"
  /\ \E envs \in [1..Len(DbSchemes) -> EmbedEnvs(llmKind)] :
       LET embs == EmbedAll(llmKind, DbSchemes, envs) IN
       \E outcome \in AddOutcomes(chroma, embs) :
         IF outcome = "ok"
         THEN /\ chroma' = ChromaAppend(chroma, DbSchemes, embs)
              /\ upserted' = Upsert(upserted, DbSchemes, Len(DbSchemes))
              /\ vPc' = "ready"
         ELSE /\ UNCHANGED <<chroma, upserted>>
              /\ vPc' = "fallback"
  /\ UNCHANGED <<dedupVars, fetchVars, unitVars, procVars, llmKind, collection, inMemoryVectors,
                 inMemoryEmbeddings, vLog>>

\* the outer catch: initializeInMemoryVectorDB -> populateInMemoryVectorDB.
\* `collection` keeps whatever the try block assigned to it.
VFallback ==
  /\ vPc = "fallback"
  /\ \E envs \in [1..Len(DbSchemes) -> EmbedEnvs(llmKind)] :
       /\ SetIndex(PushAll(Index, DbSchemes, EmbedAll(llmKind, DbSchemes, envs)))
       /\ upserted' = IF collection = "set" THEN upserted
                      ELSE Upsert(upserted, DbSchemes, Len(DbSchemes))
  /\ vPc' = "readyFallback"
  /\ UNCHANGED <<dedupVars, fetchVars, unitVars, procVars, llmKind, vLog>>

Ready == vPc \in {"ready", "readyFallback"}

\* a caller (chat route, validation) runs searchSimilarSchemes(query, limit)
VSearch ==
  /\ Ready
  /\ \E arg \in VecQueryArgs, limit \in 1..MaxLimit,
        embEnv \in EmbedEnvs(llmKind), queryOutcome \in CallOutcomes :
       LET r == SearchSimilarSchemes(Index, llmKind, arg.query, arg.wellFormed,
                                     limit, embEnv, queryOutcome) IN
       vLog' = [op |-> "search", backend |-> r.backend, raised |-> r.raised,
                cause |-> r.cause, results |-> r.results, qdim |-> r.qdim,
                stored |-> 0]
  /\ UNCHANGED <<dedupVars, fetchVars, unitVars, procVars, indexVars, vPc, upserted>>

\* the admin routes run addSchemeToVectorDB(scheme)
VAddScheme ==
  /\ Ready
  /\ Len(ActiveEntries) < MaxIndex
  /\ \E scheme \in VecSchemes, embEnv \in EmbedEnvs(llmKind),
        addOutcome \in CallOutcomes :
       LET r == AddSchemeToVectorDB(Index, llmKind, scheme, embEnv, addOutcome) IN
       /\ SetIndex(r.ix)
       /\ upserted' = IF r.failed THEN upserted ELSE Upsert(upserted, <<scheme>>, 1)
       /\ vLog' = [NoLog EXCEPT !.op = "add", !.backend = r.backend,
                                !.raised = r.raised,
                                !.cause = IF r.failed THEN "add" ELSE "none",
                                !.stored = IF r.failed THEN 0 ELSE 1]
  /\ UNCHANGED <<dedupVars, fetchVars, unitVars, procVars, llmKind, vPc>>

\* the ingestion stage of a training run: addSchemesToVectorDB(schemes)
VAddSchemes ==
  /\ Ready
  /\ \E schemes \in VecBatches :
       LET n == Len(schemes) IN
       /\ Len(ActiveEntries) + n <= MaxIndex
       /\ \E embEnvs \in [1..n -> EmbedEnvs(llmKind)],
             outcomes \in [1..n -> CallOutcomes] :
            LET r == AddSchemesToVectorDB(Index, llmKind, schemes, BatchSize,
                                          embEnvs, outcomes)
                stored == IF r.backend = "memory" THEN n
                          ELSE IF r.raised THEN SumSeq(r.adds) - r.adds[Len(r.adds)]
                          ELSE SumSeq(r.adds) IN
            /\ SetIndex(r.ix)
            /\ upserted' = Upsert(upserted, schemes, stored)
            /\ vLog' = [NoLog EXCEPT !.op = "addBatch", !.backend = r.backend,
                                     !.raised = r.raised,
                                     !.cause = IF r.raised THEN "add" ELSE "none",
                                     !.stored = stored]
  /\ UNCHANGED <<dedupVars, fetchVars, unitVars, procVars, llmKind, vPc>>

-----------------------------------------------------------------------------
(* dataScraper.js: the sources and fetchAllSchemeData *)

NameN == <<"n">>
NameP == <<"p">>
NameUpperP == <<"P">>
NameL == <<"l">>
CatE  == <<"e">>
CatG  == <<"g">>

\* fetchNSPData(): the one literal scheme
NspSchemes == << [id |-> "nsp-merit-scholarship", name |-> NameN, category |-> CatE] >>

\* fetchPMKisanData(): the one literal scheme
PmkisanSchemes == << [id |-> "pm-kisan-samman-nidhi", name |-> NameP, category |-> CatG] >>

\* what myscheme.gov.in may list: nothing, a scheme whose name and category
\* differ from the PM Kisan scheme's only in case, or an entry with a blank name
MyListings == { <<>>, << [name |-> NameUpperP, category |-> CatG] >>,
                << [name |-> <<" ">>, category |-> <<>>] >> }

\* the answers of GET /api/schemes: a failure, a body without `schemes`, a list
ApiReplies ==
  {[status |-> "fail", items |-> <<>>], [status |-> "noschemes", items |-> <<>>]}
  \cup {[status |-> "ok", items |-> l] : l \in MyListings}

\* the answers of GET /schemes: a failure, or a page with its scheme cards
ScrapeReplies ==
  {[status |-> "fail", items |-> <<>>]} \cup {[status |-> "ok", items |-> l] : l \in MyListings}

\* processMySchemeAPIResponse
ProcessMySchemeAPIResponse(items) ==
  [i \in 1..Len(items) |->
     [id |-> "myscheme-api-" \o ToString(i - 1),
      name |-> items[i].name,
      category |-> IF items[i].category = <<>> THEN General ELSE items[i].category]]

RECURSIVE ScrapeCards(_, _)
\* the .each over the scheme cards: only cards with a name are pushed
ScrapeCards(items, index) ==
  IF items = <<>> THEN <<>>
  ELSE (IF Trim(Head(items).name) # <<>>
        THEN << [id |-> "myscheme-" \o ToString(index),
                 name |-> Trim(Head(items).name),
                 category |-> Trim(Head(items).category)] >>
        ELSE <<>>)
       \o ScrapeCards(Tail(items), index + 1)

\* scrapeMySchemeWebsite: `catch (error) { return []; }`
ScrapeMySchemeWebsite(scrape) ==
  IF scrape.status = "ok" THEN ScrapeCards(scrape.items, 0) ELSE <<>>

\* the mutant of FetchMySchemeData: a source whose API and scrape both fail
\* lets the exception out
FetchMySchemeDataThrows(api, scrape) ==
  IF api.status = "ok"
  THEN [raised |-> FALSE, recs |-> ProcessMySchemeAPIResponse(api.items)]
  ELSE [raised |-> scrape.status = "fail", recs |-> ScrapeMySchemeWebsite(scrape)]

\* fetchMySchemeData: the API first, the scrape when it fails or has no schemes
FetchMySchemeData(api, scrape) ==
  IF api.status = "ok"
  THEN [raised |-> FALSE, recs |-> ProcessMySchemeAPIResponse(api.items)]
  ELSE [raised |-> FALSE, recs |-> ScrapeMySchemeWebsite(scrape)]

\* whether the source gave up: its API call and its scrape both failed
SourceFailed(env) == env.api.status = "fail" /\ env.scrape.status = "fail"

\* what saveDataToFile may meet: both writes done, the schemes file not
\* written (mkdir or the first writeFile rejects), or only the metadata file
WriteOutcomes == {"ok", "failSchemes", "failMetadata"}

FetchEnvs == [api : ApiReplies, scrape : ScrapeReplies, write : WriteOutcomes]

\* the process model runs with myscheme.gov.in unreachable: every fetch there
\* returns the two literal sources, and only the file system varies
RunEnvs == {env \in FetchEnvs : SourceFailed(env)}

NoFile == [exists |-> FALSE, recs |-> <<>>]

\* fetchAllSchemeData: the three sources in turn, the merge, the clean-up and
\* saveDataToFile, whose error is thrown on. file is scraped_schemes.json.
FetchAllSchemeData(env, file, now) ==
  LET my      == FetchMySchemeData(env.api, env.scrape)
      all     == my.recs \o NspSchemes \o PmkisanSchemes
      cleaned == CleanAndDeduplicateData(all, now)
      written == [exists |-> TRUE, recs |-> cleaned]
  IN IF my.raised
     THEN [raised |-> TRUE, data |-> <<>>, file |-> file]
     ELSE [raised |-> env.write # "ok",
           data   |-> IF env.write = "ok" THEN cleaned ELSE <<>>,
           file   |-> IF env.write = "failSchemes" THEN file ELSE written]

\* loadScrapedData: `catch (error) { return []; }`
LoadScrapedData(file, readOk) ==
  IF file.exists /\ readOk THEN file.recs ELSE <<>>

\* existingData.find(s => s.id === id): the first match, or none
FindById(existingData, id) ==
  LET hits == {i \in 1..Len(existingData) : existingData[i].id = id} IN
  IF hits = {} THEN <<>>
  ELSE << existingData[CHOOSE i \in hits : \A j \in hits : i <= j] >>

\* hasDataChanged of RAGTrainer and of ScheduledTrainingService (the same code)
HasDataChanged(newData, existingData) ==
  \/ Len(newData) # Len(existingData)
  \/ \E i \in 1..Len(newData) :
       LET found == FindById(existingData, newData[i].id) IN
       found = <<>> \/ found[1].lastUpdated # newData[i].lastUpdated

-----------------------------------------------------------------------------
(* ragTrainer.js: the stages of trainRAGModel *)

QueriesPerScheme == 8   \* the queries.push calls of generateQueriesForScheme

\* the four literal testQueries of validateTraining, none of them a scheme text
TestQueries == [i \in 1..4 |-> [name |-> <<"q", ToString(i)>>, category |-> <<>>]]

\* what the local dataset (USE_LOCAL_DATA) may be: unreadable, empty, or a
\* list of records; a record read from a file may lack `category`
\* ("noCategory") or hold a string where applicationProcedure wants an array
\* ("procedureNotArray")
LocalSchemes == << [id |-> "local-1", name |-> NameL, category |-> CatE, lastUpdated |-> 0] >>

LocalReplies ==
  { [status |-> "unreadable", recs |-> <<>>, defect |-> "none"],
    [status |-> "ok", recs |-> <<>>, defect |-> "none"],
    [status |-> "ok", recs |-> LocalSchemes, defect |-> "none"],
    [status |-> "ok", recs |-> LocalSchemes, defect |-> "noCategory"],
    [status |-> "ok", recs |-> LocalSchemes, defect |-> "procedureNotArray"] }

\* processTrainingData: extractKeywords reads scheme.category.toLowerCase()
ProcessTrainingData(data, defect) ==
  [raised |-> data # <<>> /\ defect = "noCategory", data |-> data]

\* generateTrainingExamples: generateProcedureResponse calls procedure.join;
\* saveTrainingExamples catches its own errors
GenerateTrainingExamples(data, defect) ==
  [raised |-> data # <<>> /\ defect = "procedureNotArray",
   count  |-> QueriesPerScheme * Len(data)]

RECURSIVE AddEachStops(_, _, _, _, _)
\* the mutant of AddEach: the loop ends at the first scheme that is not stored
AddEachStops(ix, kind, schemes, envs, outcomes) ==
  IF schemes = <<>> THEN [ix |-> ix, attempted |-> <<>>, failed |-> <<>>]
  ELSE LET r == AddSchemeToVectorDB(ix, kind, Head(schemes), Head(envs), Head(outcomes)) IN
       IF r.failed
       THEN [ix |-> r.ix, attempted |-> <<Head(schemes).id>>, failed |-> <<Head(schemes).id>>]
       ELSE LET rest == AddEachStops(r.ix, kind, Tail(schemes), Tail(envs), Tail(outcomes)) IN
            [ix |-> rest.ix, attempted |-> <<Head(schemes).id>> \o rest.attempted,
             failed |-> rest.failed]

RECURSIVE AddEach(_, _, _, _, _)
\* the fallback loop of trainVectorDatabase: one addSchemeToVectorDB per scheme.
\* `attempted` are the ids the function was called with, `failed` those whose
\* collection.add was rejected (the function only logs them).
AddEach(ix, kind, schemes, envs, outcomes) ==
  IF schemes = <<>> THEN [ix |-> ix, attempted |-> <<>>, failed |-> <<>>]
  ELSE LET r    == AddSchemeToVectorDB(ix, kind, Head(schemes), Head(envs), Head(outcomes))
           rest == AddEach(r.ix, kind, Tail(schemes), Tail(envs), Tail(outcomes)) IN
       [ix |-> rest.ix, attempted |-> <<Head(schemes).id>> \o rest.attempted,
        failed |-> (IF r.failed THEN <<Head(schemes).id>> ELSE <<>>) \o rest.failed]

\* trainVectorDatabase: the batch add, and on its error the per-scheme adds.
\* The function returns nothing; `fellBack`, `attempted` and `failed` record
\* what it did.
TrainVectorDatabase(ix, kind, schemes, batchSize, envs, outcomes, envs2, outcomes2) ==
  LET r == AddSchemesToVectorDB(ix, kind, schemes, batchSize, envs, outcomes) IN
  IF r.raised
  THEN LET e == AddEach(r.ix, kind, schemes, envs2, outcomes2) IN
       [ix |-> e.ix, raised |-> FALSE, fellBack |-> TRUE,
        attempted |-> e.attempted, failed |-> e.failed]
  ELSE [ix |-> r.ix, raised |-> FALSE, fellBack |-> FALSE,
        attempted |-> <<>>, failed |-> <<>>]

\* validateTraining: searchSimilarSchemes(query, 3) for every test query
ValidateTraining(ix, kind, envs, outcomes) ==
  [totalTestQueries |-> Len(TestQueries),
   successfulRetrievals |->
     Cardinality({i \in 1..Len(TestQueries) :
        SearchSimilarSchemes(ix, kind, TestQueries[i], TRUE, 3,
                             envs[i], outcomes[i]).results # <<>>})]

NoSnapshot ==
  [exists |-> FALSE, age |-> "none", totalSchemes |-> 0, successfulRetrievals |-> 0,
   lastTrainingDate |-> -1]

\* `validationResults.totalSchemes || 0`: validateTraining sets no totalSchemes
TotalSchemesOf(validationResults) == 0

\* the mutant of FailedRunSnapshot: the failing run records itself
FailedRunSnapshotWrites(snap, now) ==
  [exists |-> TRUE, age |-> "fresh", totalSchemes |-> 0, successfulRetrievals |-> 0,
   lastTrainingDate |-> now]

\* the catch block of trainRAGModel: console.error and `throw error`; nothing
\* is written
FailedRunSnapshot(snap, now) == snap

\* saveTrainingResults: the error of writeFile is caught and logged
SaveTrainingResults(snap, validationResults, writeOk, now) ==
  IF writeOk
  THEN [exists |-> TRUE, age |-> "fresh",
        totalSchemes |-> TotalSchemesOf(validationResults),
        successfulRetrievals |-> validationResults.successfulRetrievals,
        lastTrainingDate |-> now]
  ELSE snap

\* getTrainingStats: the file when it can be read, else the defaults
GetTrainingStats(snap, readOk) == IF readOk THEN snap ELSE NoSnapshot

\* hoursSinceTraining > 24; new Date(null) is the epoch
TrainedLongAgo(stats) == ~stats.exists \/ stats.age = "old"

-----------------------------------------------------------------------------
(* The process: the scheduler service, the training routes and their runs *)

MaxStarts == 2   \* handler invocations started in one behaviour

\* one caller each: the cron callback (performScheduledTraining),
\* forceTraining(), POST /train and POST /retrain
Tasks == {"cron", "force", "train", "retrain"}
SchedulerTasks == {"cron", "force"}

AlreadyInProgress == "Training already in progress"

IdleTask ==
  [pc |-> "idle",
   fresh |-> <<>>,          \* freshData of checkIfRetrainingNeeded / retrainModel
   data |-> <<>>,           \* scrapedData, then processedData, of trainRAGModel
   defect |-> "none",       \* what is wrong with the records of data
   examples |-> 0,          \* trainingExamples.length
   successful |-> 0,        \* validationResults.successfulRetrievals
   stages |-> <<>>,         \* the stages this invocation's run has completed
   wrote |-> FALSE,         \* this invocation's run wrote training_results.json
   runError |-> "none",     \* what trainRAGModel threw to its caller
   outcome |-> "none",      \* how the last invocation ended
   error |-> "none",        \* the error the last invocation ended with
   raised |-> FALSE,        \* whether that error reached the handler's caller
   retTotal |-> -1,         \* totalSchemes of the result the last run returned
   calls |-> 0,             \* invocations completed
   firstOutcome |-> "none"] \* outcome of the first of them

TrainPcs == {"trainFetch", "trainLocal", "trainIngest", "trainSave"}

\* a trainRAGModel run of task t is in progress
InRun(t) == task[t].pc \in TrainPcs

\* the locals of a new invocation
Fresh(rec) ==
  [rec EXCEPT !.fresh = <<>>, !.data = <<>>, !.defect = "none", !.examples = 0,
              !.successful = 0, !.stages = <<>>, !.wrote = FALSE,
              !.runError = "none", !.retTotal = -1]

\* the record of a task whose invocation ends
Ended(t, rec, outcome, error) ==
  [rec EXCEPT !.pc = "idle", !.fresh = <<>>, !.data = <<>>, !.defect = "none",
              !.outcome = outcome, !.error = error,
              !.raised = (error # "none" /\ t # "cron"),
              !.calls = @ + 1,
              !.firstOutcome = IF rec.calls = 0 THEN outcome ELSE @]

\* the mutant of FlagAfterRejected: the guard sits inside the try, so the
\* finally block of the rejected call clears the flag
FlagAfterRejectedCleared(flag) == FALSE

\* `if (this.isTraining) { return / throw }` stands before the try: a call
\* turned away leaves the flag as it is
FlagAfterRejected(flag) == flag

\* the mutant of Finish: no finally block, the flag stays as the run set it
FinishKeepsFlag(t, rec, outcome, error) ==
  /\ task' = [task EXCEPT ![t] = Ended(t, rec, outcome, error)]
  /\ isTraining' = isTraining
  /\ lastTrainingTime' =
       IF t \in SchedulerTasks /\ outcome \in {"trained", "noop"}
       THEN clock ELSE lastTrainingTime

\* the end of a handler: the finally blocks of the scheduler service clear
\* the flag; the routes have none. lastTrainingTime is set after a run or a
\* retrain that returned.
Finish(t, rec, outcome, error) ==
  /\ task' = [task EXCEPT ![t] = Ended(t, rec, outcome, error)]
  /\ isTraining' = IF t \in SchedulerTasks THEN FALSE ELSE isTraining
  /\ lastTrainingTime' =
       IF t \in SchedulerTasks /\ outcome \in {"trained", "noop"}
       THEN clock ELSE lastTrainingTime

\* performScheduledTraining, up to its first await
StartScheduled ==
  /\ task["cron"].pc = "idle" /\ starts < MaxStarts
  /\ starts' = starts + 1
  /\ IF isTraining
     THEN /\ task' = [task EXCEPT !["cron"] = Ended("cron", Fresh(@), "skipped", "none")]
          /\ isTraining' = FlagAfterRejected(isTraining)
     ELSE /\ task' = [task EXCEPT !["cron"] = [Fresh(@) EXCEPT !.pc = "checkStats"]]
          /\ isTraining' = TRUE
  /\ UNCHANGED <<dedupVars, fetchVars, unitVars, clock, dataFile, snapshot, lastTrainingTime,
                 useLocalData, indexVars, vecVars>>

\* forceTraining, up to its first await
StartForced ==
  /\ task["force"].pc = "idle" /\ starts < MaxStarts
  /\ starts' = starts + 1
  /\ IF isTraining
     THEN /\ task' = [task EXCEPT !["force"] =
                        Ended("force", Fresh(@), "rejected", AlreadyInProgress)]
          /\ isTraining' = FlagAfterRejected(isTraining)
     ELSE /\ task' = [task EXCEPT !["force"] = [Fresh(@) EXCEPT !.pc = "trainFetch"]]
          /\ isTraining' = TRUE
  /\ UNCHANGED <<dedupVars, fetchVars, unitVars, clock, dataFile, snapshot, lastTrainingTime,
                 useLocalData, indexVars, vecVars>>

\* POST /train with a valid body, up to its first await
StartTrainRoute ==
  /\ task["train"].pc = "idle" /\ starts < MaxStarts
  /\ starts' = starts + 1
  /\ \E forceRetrain \in BOOLEAN :
       task' = [task EXCEPT !["train"] =
                  [Fresh(@) EXCEPT !.pc = IF forceRetrain THEN "trainFetch"
                                          ELSE "routeStats"]]
  /\ UNCHANGED <<dedupVars, fetchVars, unitVars, clock, dataFile, snapshot, isTraining, lastTrainingTime,
                 useLocalData, indexVars, vecVars>>

\* POST /retrain, up to its first await
StartRetrainRoute ==
  /\ task["retrain"].pc = "idle" /\ starts < MaxStarts
  /\ starts' = starts + 1
  /\ task' = [task EXCEPT !["retrain"] = [Fresh(@) EXCEPT !.pc = "retrainFetch"]]
  /\ UNCHANGED <<dedupVars, fetchVars, unitVars, clock, dataFile, snapshot, isTraining, lastTrainingTime,
                 useLocalData, indexVars, vecVars>>

\* POST /train without forceRetrain: getTrainingStats and `hoursSinceTraining < 24`
RouteStats ==
  /\ task["train"].pc = "routeStats"
  /\ \E readOk \in BOOLEAN :
       LET stats == GetTrainingStats(snapshot, readOk) IN
       IF ~TrainedLongAgo(stats)
       THEN Finish("train", task["train"], "recent", "none")
       ELSE /\ task' = [task EXCEPT !["train"].pc = "trainFetch"]
            /\ UNCHANGED <<isTraining, lastTrainingTime>>
  /\ UNCHANGED <<dedupVars, fetchVars, unitVars, clock, dataFile, snapshot, useLocalData, starts,
                 indexVars, vecVars>>

\* checkIfRetrainingNeeded: getTrainingStats and `hoursSinceTraining > 24`
CheckStats ==
  /\ task["cron"].pc = "checkStats"
  /\ \E readOk \in BOOLEAN :
       task' = [task EXCEPT !["cron"].pc =
                  IF TrainedLongAgo(GetTrainingStats(snapshot, readOk))
                  THEN "retrainFetch" ELSE "checkFetch"]
  /\ UNCHANGED <<dedupVars, fetchVars, unitVars, clock, dataFile, snapshot, isTraining, lastTrainingTime,
                 useLocalData, starts, indexVars, vecVars>>

\* checkIfRetrainingNeeded: fetchAllSchemeData; its error means `return true`
CheckFetch ==
  /\ task["cron"].pc = "checkFetch"
  /\ \E env \in RunEnvs :
       LET r == FetchAllSchemeData(env, dataFile, clock) IN
       /\ dataFile' = r.file
       /\ task' = [task EXCEPT !["cron"] =
                     IF r.raised THEN [@ EXCEPT !.pc = "retrainFetch"]
                     ELSE [@ EXCEPT !.pc = "checkLoad", !.fresh = r.data]]
  /\ clock' = clock + 1
  /\ UNCHANGED <<dedupVars, fetchVars, unitVars, snapshot, isTraining, lastTrainingTime, useLocalData,
                 starts, indexVars, vecVars>>

\* checkIfRetrainingNeeded: loadScrapedData and hasDataChanged
CheckLoad ==
  /\ task["cron"].pc = "checkLoad"
  /\ \E readOk \in BOOLEAN :
       IF HasDataChanged(task["cron"].fresh, LoadScrapedData(dataFile, readOk))
       THEN /\ task' = [task EXCEPT !["cron"].pc = "retrainFetch"]
            /\ UNCHANGED <<isTraining, lastTrainingTime>>
       ELSE Finish("cron", task["cron"], "notNeeded", "none")
  /\ UNCHANGED <<dedupVars, fetchVars, unitVars, clock, dataFile, snapshot, useLocalData, starts,
                 indexVars, vecVars>>

\* retrainModel: `const freshData = await this.dataScraper.fetchAllSchemeData()`
RetrainFetch ==
  \E t \in {"cron", "retrain"} :
    /\ task[t].pc = "retrainFetch"
    /\ \E env \in RunEnvs :
         LET r == FetchAllSchemeData(env, dataFile, clock) IN
         /\ dataFile' = r.file
         /\ IF r.raised
            THEN Finish(t, task[t], "error", "fetch")
            ELSE /\ task' = [task EXCEPT ![t] =
                               [@ EXCEPT !.pc = "retrainLoad", !.fresh = r.data]]
                 /\ UNCHANGED <<isTraining, lastTrainingTime>>
    /\ clock' = clock + 1
    /\ UNCHANGED <<dedupVars, fetchVars, unitVars, snapshot, useLocalData, starts, indexVars, vecVars>>

\* retrainModel: loadScrapedData, hasDataChanged, and the no-op result
RetrainLoad ==
  \E t \in {"cron", "retrain"} :
    /\ task[t].pc = "retrainLoad"
    /\ \E readOk \in BOOLEAN :
         IF HasDataChanged(task[t].fresh, LoadScrapedData(dataFile, readOk))
         THEN /\ task' = [task EXCEPT ![t].pc = "trainFetch"]
              /\ UNCHANGED <<isTraining, lastTrainingTime>>
         ELSE Finish(t, task[t], "noop", "none")
    /\ UNCHANGED <<dedupVars, fetchVars, unitVars, clock, dataFile, snapshot, useLocalData, starts,
                   indexVars, vecVars>>

\* the mutant of ProcessAndGenerate: the examples are generated before the
\* data is processed
ProcessAndGenerateSwapped(data, defect) ==
  LET g == GenerateTrainingExamples(data, defect)
      p == ProcessTrainingData(data, defect) IN
  IF g.raised THEN [failed |-> "examples", data |-> data, examples |-> 0,
                    stages |-> <<>>]
  ELSE IF p.raised THEN [failed |-> "processing", data |-> data, examples |-> 0,
                         stages |-> <<"examples">>]
  ELSE [failed |-> "none", data |-> p.data, examples |-> g.count,
        stages |-> <<"examples", "processing">>]

\* trainRAGModel steps 2 and 3, which run without a suspension point between
\* them: processTrainingData, then generateTrainingExamples up to the
\* writeFile of saveTrainingExamples
ProcessAndGenerate(data, defect) ==
  LET p == ProcessTrainingData(data, defect)
      g == GenerateTrainingExamples(p.data, defect) IN
  IF p.raised THEN [failed |-> "processing", data |-> data, examples |-> 0,
                    stages |-> <<>>]
  ELSE IF g.raised THEN [failed |-> "examples", data |-> p.data, examples |-> 0,
                         stages |-> <<"processing">>]
  ELSE [failed |-> "none", data |-> p.data, examples |-> g.count,
        stages |-> <<"processing", "examples">>]

\* task t goes on from the data step 1 settled on, until the next suspension
AfterAcquisition(t, rec, data, defect) ==
  LET r == ProcessAndGenerate(data, defect) IN
  IF r.failed # "none"
  THEN /\ snapshot' = FailedRunSnapshot(snapshot, clock)
       /\ Finish(t, [rec EXCEPT !.runError = r.failed,
                                !.stages = rec.stages \o r.stages],
                 "error", r.failed)
  ELSE /\ task' = [task EXCEPT ![t] =
                     [rec EXCEPT !.pc = "trainIngest", !.data = r.data,
                                 !.defect = defect, !.examples = r.examples,
                                 !.stages = rec.stages \o r.stages]]
       /\ UNCHANGED <<snapshot, isTraining, lastTrainingTime>>

\* trainRAGModel step 1: fetchAllSchemeData, whatever USE_LOCAL_DATA says;
\* without the override steps 2 and 3 follow at once
TrainFetch ==
  \E t \in Tasks :
    /\ task[t].pc = "trainFetch"
    /\ \E env \in RunEnvs :
         LET r   == FetchAllSchemeData(env, dataFile, clock)
             rec == [task[t] EXCEPT !.stages = Append(@, "acquisition")] IN
         /\ dataFile' = r.file
         /\ IF r.raised
            THEN /\ snapshot' = FailedRunSnapshot(snapshot, clock)
                 /\ Finish(t, [task[t] EXCEPT !.runError = "acquisition"],
                           "error", "acquisition")
            ELSE IF useLocalData
            THEN /\ task' = [task EXCEPT ![t] =
                               [rec EXCEPT !.pc = "trainLocal", !.data = r.data]]
                 /\ UNCHANGED <<snapshot, isTraining, lastTrainingTime>>
            ELSE AfterAcquisition(t, rec, r.data, "none")
    /\ clock' = clock + 1
    /\ UNCHANGED <<dedupVars, fetchVars, unitVars, useLocalData, starts, indexVars, vecVars>>

\* trainRAGModel step 1, the override: a readable, non-empty local dataset
\* replaces the fetched data; anything else is logged and ignored. Steps 2
\* and 3 follow at once.
TrainLocal ==
  \E t \in Tasks :
    /\ task[t].pc = "trainLocal"
    /\ \E local \in LocalReplies :
         IF local.status = "ok" /\ local.recs # <<>>
         THEN AfterAcquisition(t, task[t], local.recs, local.defect)
         ELSE AfterAcquisition(t, task[t], task[t].data, "none")
    /\ UNCHANGED <<dedupVars, fetchVars, unitVars, clock, dataFile, useLocalData, starts, indexVars, vecVars>>

\* trainRAGModel steps 4 and 5: trainVectorDatabase, then validateTraining up
\* to the writeFile of saveTrainingResults
TrainIngest ==
  \E t \in Tasks :
    /\ task[t].pc = "trainIngest"
    /\ LET n == Len(task[t].data)
           q == Len(TestQueries) IN
       \E envs \in [1..n -> EmbedEnvs(llmKind)], envs2 \in [1..n -> EmbedEnvs(llmKind)],
          outcomes \in [1..n -> CallOutcomes], outcomes2 \in [1..n -> CallOutcomes],
          qenvs \in [1..q -> EmbedEnvs(llmKind)], qoutcomes \in [1..q -> CallOutcomes] :
         LET ix == TrainVectorDatabase(Index, llmKind, task[t].data, BatchSize,
                                       envs, outcomes, envs2, outcomes2).ix IN
         /\ SetIndex(ix)
         /\ task' = [task EXCEPT ![t] =
                       [@ EXCEPT !.pc = "trainSave",
                                 !.successful =
                                    ValidateTraining(ix, llmKind, qenvs, qoutcomes)
                                      .successfulRetrievals,
                                 !.stages = @ \o <<"ingestion", "validation">>]]
    /\ UNCHANGED <<dedupVars, fetchVars, unitVars, procVarsButTask, llmKind, vecVars>>

\* trainRAGModel step 6 and the return: saveTrainingResults, then the result
\* object with totalSchemes: processedData.length
TrainSave ==
  \E t \in Tasks :
    /\ task[t].pc = "trainSave"
    /\ \E writeOk \in BOOLEAN :
         /\ snapshot' = SaveTrainingResults(snapshot,
                          [totalTestQueries |-> Len(TestQueries),
                           successfulRetrievals |-> task[t].successful],
                          writeOk, clock)
         /\ Finish(t, [task[t] EXCEPT !.wrote = writeOk,
                                      !.stages = Append(@, "save"),
                                      !.retTotal = Len(task[t].data)],
                   "trained", "none")
    /\ UNCHANGED <<dedupVars, fetchVars, unitVars, clock, dataFile, useLocalData, starts, indexVars, vecVars>>

\* more than 24 hours go by since the snapshot was written; a handler lasts
\* seconds, so the day ends between invocations
DayPasses ==
  /\ snapshot.exists /\ snapshot.age = "fresh"
  /\ \A t \in Tasks : task[t].pc = "idle"
  /\ snapshot' = [snapshot EXCEPT !.age = "old"]
  /\ UNCHANGED <<dedupVars, fetchVars, unitVars, clock, dataFile, isTraining, lastTrainingTime,
                 useLocalData, task, starts, indexVars, vecVars>>

-----------------------------------------------------------------------------
(* Initial states and specifications *)

DedupIdle == dInput = <<>> /\ dOutput = <<>> /\ dPc = "off"

NoCall == [raised |-> FALSE, data |-> <<>>, file |-> NoFile]

NoEnv == [api |-> [status |-> "fail", items |-> <<>>],
          scrape |-> [status |-> "fail", items |-> <<>>], write |-> "ok"]

FetchIdle == fEnv = NoEnv /\ fOut = NoCall /\ fPc = "off"

UnitIdle == uIn = <<>> /\ uOut = <<>> /\ uPc = "off"

\* a process that has not started a handler yet
ProcIdle ==
  /\ clock = 1
  /\ dataFile = NoFile
  /\ snapshot = NoSnapshot
  /\ isTraining = FALSE
  /\ lastTrainingTime = -1
  /\ useLocalData = FALSE
  /\ task = [t \in Tasks |-> IdleTask]
  /\ starts = 0

\* scraped_schemes.json as an earlier process left it at time 0
PriorFile == [exists |-> TRUE,
              recs |-> CleanAndDeduplicateData(NspSchemes \o PmkisanSchemes, 0)]

\* the process after startup in its default configuration: no USE_OLLAMA, no
\* USE_HUGGINGFACE, no ChromaDB server, so initializeVectorDB fell back to the
\* in-memory store and populated it from getAllSchemes()
Init ==
  /\ DedupIdle
  /\ FetchIdle
  /\ UnitIdle
  /\ clock = 1
  /\ dataFile = NoFile
  /\ snapshot = NoSnapshot
  /\ isTraining = FALSE
  /\ lastTrainingTime = -1
  /\ useLocalData \in BOOLEAN
  /\ task = [t \in Tasks |-> IdleTask]
  /\ starts = 0
  /\ llmKind = "simple"
  /\ collection = "undefined"
  /\ chroma = <<>>
  /\ inMemoryVectors = [i \in 1..Len(DbSchemes) |-> MemoryVector(DbSchemes[i])]
  /\ inMemoryEmbeddings = EmbedAll("simple", DbSchemes, [i \in 1..Len(DbSchemes) |-> "up"])
  /\ vPc = "readyFallback"
  /\ vLog = NoLog
  /\ upserted = [id \in VecIds |-> <<>>]

Next ==
  \/ StartScheduled \/ StartForced \/ StartTrainRoute \/ StartRetrainRoute
  \/ RouteStats \/ CheckStats \/ CheckFetch \/ CheckLoad
  \/ RetrainFetch \/ RetrainLoad
  \/ TrainFetch \/ TrainLocal \/ TrainIngest \/ TrainSave
  \/ DayPasses

Spec == Init /\ [][Next]_vars

\* the steps that resume a run of the scheduler service after one of its
\* awaits, the ingestion apart
ResumeSteps ==
  \/ CheckStats \/ CheckFetch \/ CheckLoad
  \/ RetrainFetch \/ RetrainLoad
  \/ TrainFetch \/ TrainLocal \/ TrainSave

\* the scheduler service alone, the cron callback and forceTraining: the
\* routes of the training API neither read nor write its flag
NextService ==
  \/ StartScheduled \/ StartForced
  \/ ResumeSteps \/ TrainIngest
  \/ DayPasses

\* an invocation waits at the await of trainVectorDatabase: TrainIngest is
\* enabled exactly then (its choices are drawn from non-empty sets and its
\* step moves the task on)
IngestPending == \E t \in Tasks : task[t].pc = "trainIngest"

\* weak fairness of TrainIngest, its enabling condition written out
IngestFair == []<>(~IngestPending) \/ []<><<TrainIngest>>_vars

\* every await of a started run settles (the HTTP fetches carry a timeout,
\* the file reads and writes and the in-process embedding return), and the
\* event loop then resumes the run
SpecFair == Init /\ [][NextService]_vars /\ WF_vars(ResumeSteps) /\ IngestFair

\* the vector index before initializeVectorDB: the configured embedding
\* service, and an external collection that is empty or left by an earlier run
InitVec ==
  /\ DedupIdle
  /\ FetchIdle
  /\ UnitIdle
  /\ ProcIdle
  /\ llmKind \in LlmKinds
  /\ collection = "undefined"
  /\ chroma \in {<<>>,
                 << ChromaDoc([id |-> "s2", name |-> NameB, category |-> CatC],
                              ServiceEmbedding(llmKind,
                                 [name |-> NameB, category |-> CatC], "up")) >>}
  /\ inMemoryVectors = <<>>
  /\ inMemoryEmbeddings = <<>>
  /\ vPc = "client"
  /\ vLog = NoLog
  /\ upserted = [id \in VecIds |-> <<>>]

NextVec ==
  \/ VInitClient \/ VGetCollection \/ VCreateCollection \/ VCount
  \/ VPopulate \/ VFallback
  \/ VSearch \/ VAddScheme \/ VAddSchemes

SpecVec == InitVec /\ [][NextVec]_vars

\* cleanAndDeduplicateData(schemes) on the drawn input
DedupClean ==
  /\ dPc = "start"
  /\ dOutput' = CleanAndDeduplicateData(dInput, clock)
  /\ dPc' = "done"
  /\ UNCHANGED <<dInput, fetchVars, unitVars, procVars, indexVars, vecVars>>

InitDedup ==
  /\ dInput \in DedupInputs
  /\ dOutput = <<>>
  /\ dPc = "start"
  /\ FetchIdle
  /\ UnitIdle
  /\ ProcIdle
  /\ llmKind = "simple"
  /\ collection = "undefined"
  /\ chroma = <<>>
  /\ inMemoryVectors = <<>>
  /\ inMemoryEmbeddings = <<>>
  /\ vPc = "client"
  /\ vLog = NoLog
  /\ upserted = [id \in VecIds |-> <<>>]

NextDedup == DedupClean

SpecDedup == InitDedup /\ [][NextDedup]_vars

\* one call of fetchAllSchemeData() under the drawn environment
FetchCall ==
  /\ fPc = "start"
  /\ LET r == FetchAllSchemeData(fEnv, dataFile, clock) IN
       /\ fOut' = r
       /\ dataFile' = r.file
  /\ clock' = clock + 1
  /\ fPc' = "done"
  /\ UNCHANGED <<dedupVars, unitVars, fEnv, snapshot, isTraining, lastTrainingTime,
                 useLocalData, task, starts, indexVars, vecVars>>

\* the data directory is empty, or holds the file an earlier call wrote
InitFetch ==
  /\ DedupIdle
  /\ UnitIdle
  /\ fEnv \in FetchEnvs
  /\ fOut = NoCall
  /\ fPc = "start"
  /\ clock = 1
  /\ dataFile \in {NoFile, PriorFile}
  /\ snapshot = NoSnapshot
  /\ isTraining = FALSE
  /\ lastTrainingTime = -1
  /\ useLocalData = FALSE
  /\ task = [t \in Tasks |-> IdleTask]
  /\ starts = 0
  /\ llmKind = "simple"
  /\ collection = "undefined"
  /\ chroma = <<>>
  /\ inMemoryVectors = <<>>
  /\ inMemoryEmbeddings = <<>>
  /\ vPc = "client"
  /\ vLog = NoLog
  /\ upserted = [id \in VecIds |-> <<>>]

NextFetch == FetchCall

SpecFetch == InitFetch /\ [][NextFetch]_vars

-----------------------------------------------------------------------------
(* addSchemesToVectorDB on the external collection, on its own (SpecChunk) *)

MaxRecords == 5   \* longest list handed to addSchemesToVectorDB
MaxChunk   == 3   \* largest batchSize

\* n records with ids r1..rn
ChunkRecords(n) ==
  [i \in 1..n |-> [id |-> "r" \o ToString(i), name |-> NameA, category |-> CatC]]

\* the arguments of a call, and what collection.add does at its k-th call
ChunkInputs ==
  UNION { [schemes : {ChunkRecords(n)}, batchSize : 1..MaxChunk,
           outcomes : [1..n -> {"ok", "error"}]] : n \in 0..MaxRecords }

\* addSchemesToVectorDB(schemes, batchSize) with `collection` set
ChunkCall ==
  /\ uPc = "start"
  /\ LET n == Len(uIn.schemes)
         r == AddSchemesToVectorDB(Index, llmKind, uIn.schemes, uIn.batchSize,
                                   [i \in 1..n |-> "up"], uIn.outcomes) IN
       /\ SetIndex(r.ix)
       /\ uOut' = [raised |-> r.raised, batches |-> r.batches]
  /\ uPc' = "done"
  /\ UNCHANGED <<dedupVars, fetchVars, uIn, procVars, llmKind, vecVars>>

\* the external collection is in use and empty
InitChunk ==
  /\ DedupIdle
  /\ FetchIdle
  /\ ProcIdle
  /\ uIn \in ChunkInputs
  /\ uOut = [raised |-> FALSE, batches |-> <<>>]
  /\ uPc = "start"
  /\ llmKind = "simple"
  /\ collection = "set"
  /\ chroma = <<>>
  /\ inMemoryVectors = <<>>
  /\ inMemoryEmbeddings = <<>>
  /\ vPc = "ready"
  /\ vLog = NoLog
  /\ upserted = [id \in VecIds |-> <<>>]

SpecChunk == InitChunk /\ [][ChunkCall]_vars

-----------------------------------------------------------------------------
(* trainRAGModel steps 2 to 6 on the external collection, on their own
   (SpecIngest) *)

MaxIngest == 3   \* most records a run is given

\* the value trainRAGModel returns
RunResult(processedData, trainingExamples, validationResults) ==
  [success |-> TRUE, totalSchemes |-> Len(processedData),
   trainingExamples |-> trainingExamples, validationResults |-> validationResults]

\* what acquisition handed over, the chunk size, and what collection.add does
\* at the k-th call of the batch (outcomes) and of the fallback (outcomes2)
IngestInputs ==
  UNION { [schemes : {ChunkRecords(n)}, batchSize : 1..MaxChunk,
           outcomes : [1..n -> {"ok", "error"}],
           outcomes2 : [1..n -> {"ok", "error"}]] : n \in 0..MaxIngest }

\* trainRAGModel from `processTrainingData(scrapedData)` to the return
RunTail ==
  /\ uPc = "start"
  /\ LET n  == Len(uIn.schemes)
         up == [i \in 1..n |-> "up"]
         p  == ProcessTrainingData(uIn.schemes, "none")
         g  == GenerateTrainingExamples(p.data, "none")
         t  == TrainVectorDatabase(Index, llmKind, p.data, uIn.batchSize,
                                   up, uIn.outcomes, up, uIn.outcomes2) IN
       \E qo \in CallOutcomes, writeOk \in BOOLEAN :
         LET v == ValidateTraining(t.ix, llmKind,
                                   [i \in 1..Len(TestQueries) |-> "up"],
                                   [i \in 1..Len(TestQueries) |-> qo]) IN
         /\ SetIndex(t.ix)
         /\ snapshot' = SaveTrainingResults(snapshot, v, writeOk, clock)
         /\ uOut' = [raised |-> p.raised \/ g.raised \/ t.raised,
                     fellBack |-> t.fellBack, attempted |-> t.attempted,
                     failed |-> t.failed, wrote |-> writeOk,
                     result |-> RunResult(p.data, g.count, v)]
  /\ uPc' = "done"
  /\ UNCHANGED <<dedupVars, fetchVars, uIn, clock, dataFile, isTraining,
                 lastTrainingTime, useLocalData, task, starts, llmKind, vecVars>>

\* the external collection is in use and empty, no snapshot written yet
InitIngest ==
  /\ DedupIdle
  /\ FetchIdle
  /\ ProcIdle
  /\ uIn \in IngestInputs
  /\ uOut = <<>>
  /\ uPc = "start"
  /\ llmKind = "simple"
  /\ collection = "set"
  /\ chroma = <<>>
  /\ inMemoryVectors = <<>>
  /\ inMemoryEmbeddings = <<>>
  /\ vPc = "ready"
  /\ vLog = NoLog
  /\ upserted = [id \in VecIds |-> <<>>]

SpecIngest == InitIngest /\ [][RunTail]_vars

-----------------------------------------------------------------------------
(* generateEmbedding on its own, between changes of the index (SpecEmbed) *)

MaxText  == 4   \* longest text embedded
MaxCalls == 2   \* generateEmbedding calls on the text

\* the texts of up to MaxText characters
EmbedTexts == UNION { [1..n -> {"a", "B", " "}] : n \in 0..MaxText }

\* generateEmbedding(text) of vectorDB.js for the string uIn.text
EmbedCall ==
  /\ uPc = "start"
  /\ Len(uOut) < MaxCalls
  /\ \E env \in EmbedEnvs(llmKind) :
       LET r == GenerateEmbedding(llmKind, uIn.text, TRUE, env) IN
       uOut' = Append(uOut,
                 [env |-> env, raised |-> r.raised, via |-> r.embedding.via,
                  dim |-> r.embedding.dim,
                  vector |-> IF r.embedding.via = "hash"
                             THEN SimpleEmbedding(r.embedding.text, r.embedding.dim)
                             ELSE <<>>])
  /\ UNCHANGED <<dedupVars, fetchVars, uIn, uPc, procVars, indexVars, vecVars>>

\* addSchemeToVectorDB between two calls: the in-process index grows
EmbedStore ==
  /\ uPc = "start"
  /\ Len(inMemoryVectors) < 1
  /\ SetIndex(AddSchemeToVectorDB(Index, llmKind, DbSchemes[1], "up", "ok").ix)
  /\ UNCHANGED <<dedupVars, fetchVars, unitVars, procVars, llmKind, vecVars>>

InitEmbed ==
  /\ DedupIdle
  /\ FetchIdle
  /\ ProcIdle
  /\ uIn \in [text : EmbedTexts]
  /\ uOut = <<>>
  /\ uPc = "start"
  /\ llmKind \in LlmKinds
  /\ collection = "undefined"
  /\ chroma = <<>>
  /\ inMemoryVectors = <<>>
  /\ inMemoryEmbeddings = <<>>
  /\ vPc = "readyFallback"
  /\ vLog = NoLog
  /\ upserted = [id \in VecIds |-> <<>>]

SpecEmbed == InitEmbed /\ [][EmbedCall \/ EmbedStore]_vars

-----------------------------------------------------------------------------
(* searchInMemoryVectors on its own (SpecSearch) *)

MaxStored == 3   \* most vectors the in-process index holds

\* the lists of schemes the index was filled from
StoredLists == UNION { [1..n -> VecSchemes] : n \in 0..MaxStored }

\* searchInMemoryVectors(queryEmbedding, limit), the query embedded by the
\* configured service
SearchCall ==
  /\ uPc = "start"
  /\ LET r == SearchInMemoryVectors(inMemoryVectors, inMemoryEmbeddings,
                                    ServiceEmbedding(llmKind, uIn.query, uIn.env),
                                    uIn.limit) IN
       uOut' = [raised |-> r.raised, results |-> r.results]
  /\ uPc' = "done"
  /\ UNCHANGED <<dedupVars, fetchVars, uIn, procVars, indexVars, vecVars>>

\* no external collection; the index holds what earlier adds pushed
InitSearch ==
  /\ DedupIdle
  /\ FetchIdle
  /\ ProcIdle
  /\ llmKind \in {"simple", "ollama"}
  /\ uIn \in [query : VecQueries, limit : 0..MaxLimit, env : EmbedEnvs(llmKind)]
  /\ uOut = [raised |-> FALSE, results |-> <<>>]
  /\ uPc = "start"
  /\ collection = "undefined"
  /\ chroma = <<>>
  /\ \E schemes \in StoredLists :
       \E envs \in [1..Len(schemes) -> EmbedEnvs(llmKind)] :
         /\ inMemoryVectors = [i \in 1..Len(schemes) |-> MemoryVector(schemes[i])]
         /\ inMemoryEmbeddings = EmbedAll(llmKind, schemes, envs)
  /\ vPc = "readyFallback"
  /\ vLog = NoLog
  /\ upserted = [id \in VecIds |-> <<>>]

SpecSearch == InitSearch /\ [][SearchCall]_vars

-----------------------------------------------------------------------------
(* cosineSimilarity on its own (SpecCos) *)

MaxDim == 3   \* longest vectors compared

\* the vectors of 1..MaxDim components -1, 0 or 1
CosVectors == UNION { [1..n -> {-1, 0, 1}] : n \in 1..MaxDim }

\* cosineSimilarity(uIn.a, uIn.b)
CosCall ==
  /\ uPc = "start"
  /\ uOut' = CosineSimilarity(uIn.a, uIn.b)
  /\ uPc' = "done"
  /\ UNCHANGED <<dedupVars, fetchVars, uIn, procVars, indexVars, vecVars>>

InitCos ==
  /\ DedupIdle
  /\ FetchIdle
  /\ ProcIdle
  /\ uIn \in {in \in [a : CosVectors, b : CosVectors] : Len(in.a) = Len(in.b)}
  /\ uOut = <<>>
  /\ uPc = "start"
  /\ llmKind = "simple"
  /\ collection = "undefined"
  /\ chroma = <<>>
  /\ inMemoryVectors = <<>>
  /\ inMemoryEmbeddings = <<>>
  /\ vPc = "readyFallback"
  /\ vLog = NoLog
  /\ upserted = [id \in VecIds |-> <<>>]

SpecCos == InitCos /\ [][CosCall]_vars

-----------------------------------------------------------------------------
(* fetchAllSchemeData from one suspension point to the next (SpecFan) *)

\* the three awaits of the sources, in the order of the statements
FetchOrder == <<"myscheme", "nsp", "pmkisan">>

\* the call is resumed: the source awaited has completed and the statement
\* after the await runs, which calls the next source or, after the third,
\* merges, cleans and calls saveDataToFile; resumed from that last await the
\* call returns or throws
FanStep ==
  /\ fPc = "start"
  /\ LET k == Len(uOut.completed) IN
     IF k < Len(FetchOrder)
     THEN /\ uOut' = [started   |-> IF k + 1 < Len(FetchOrder)
                                    THEN Append(uOut.started, FetchOrder[k + 2])
                                    ELSE uOut.started,
                      completed |-> Append(uOut.completed, FetchOrder[k + 1]),
                      merged    |-> (k + 1 = Len(FetchOrder))]
          /\ UNCHANGED <<fOut, fPc, dataFile, clock>>
     ELSE LET r == FetchAllSchemeData(fEnv, dataFile, clock) IN
          /\ fOut' = r
          /\ dataFile' = r.file
          /\ clock' = clock + 1
          /\ fPc' = "done"
          /\ UNCHANGED uOut
  /\ UNCHANGED <<dedupVars, uIn, uPc, fEnv, snapshot, isTraining, lastTrainingTime,
                 useLocalData, task, starts, indexVars, vecVars>>

\* fetchAllSchemeData has run up to its first await: fetchMySchemeData is
\* called, nothing else
InitFan ==
  /\ DedupIdle
  /\ ProcIdle
  /\ fEnv \in FetchEnvs
  /\ fOut = NoCall
  /\ fPc = "start"
  /\ uIn = <<>>
  /\ uOut = [started |-> <<"myscheme">>, completed |-> <<>>, merged |-> FALSE]
  /\ uPc = "off"
  /\ llmKind = "simple"
  /\ collection = "undefined"
  /\ chroma = <<>>
  /\ inMemoryVectors = <<>>
  /\ inMemoryEmbeddings = <<>>
  /\ vPc = "readyFallback"
  /\ vLog = NoLog
  /\ upserted = [id \in VecIds |-> <<>>]

SpecFan == InitFan /\ [][FanStep]_vars

-----------------------------------------------------------------------------
(* LocalLLMService.generateEmbedding waiting for Ollama (SpecRemote) *)

\* the promise of axios.post settles: with the response, or with the error of
\* a refused or broken connection, which the catch turns into the hash
\* embedding. The request is made without `timeout` and there is no timer in
\* the function: while the backend stays silent nothing resumes the call.
RemoteSettle ==
  /\ uPc = "waiting"
  /\ uIn.backend # "silent"
  /\ uOut' = ServiceEmbedding(llmKind, uIn.text,
                              IF uIn.backend = "answers" THEN "up" ELSE "down")
  /\ uPc' = "done"
  /\ UNCHANGED <<dedupVars, fetchVars, uIn, procVars, indexVars, vecVars>>

\* generateEmbedding(text) has sent its request; the backend answers, refuses
\* or accepts the connection and stays silent
InitRemote ==
  /\ DedupIdle
  /\ FetchIdle
  /\ ProcIdle
  /\ uIn \in [text : EmbedTexts, backend : {"answers", "refuses", "silent"}]
  /\ uOut = <<>>
  /\ uPc = "waiting"
  /\ llmKind = "ollama"
  /\ collection = "undefined"
  /\ chroma = <<>>
  /\ inMemoryVectors = <<>>
  /\ inMemoryEmbeddings = <<>>
  /\ vPc = "readyFallback"
  /\ vLog = NoLog
  /\ upserted = [id \in VecIds |-> <<>>]

\* a settled promise resumes the call: the event loop runs its continuation
SpecRemote == InitRemote /\ [][RemoteSettle]_vars /\ WF_vars(RemoteSettle)

-----------------------------------------------------------------------------
(* routes/admin.js: POST /schemes and PUT /schemes/:id (SpecAdmin) *)

\* a request and what it meets: the body has the required fields or not,
\* MongoDB is connected or the file store is used, the write of the record
\* store succeeds or not, and for an update the id is known or not
AdminRequests ==
  [op : {"create", "update"}, scheme : VecSchemes, valid : BOOLEAN,
   mongo : BOOLEAN, writeOk : BOOLEAN, found : BOOLEAN]

\* POST /schemes up to the await of the store write: 400 for a body with
\* missing fields, else mongoAddScheme or schemes.push + saveSchemesToFile
AdminCreate ==
  /\ uPc = "start" /\ uIn.op = "create"
  /\ IF uIn.valid
     THEN uPc' = "writing" /\ UNCHANGED uOut
     ELSE uPc' = "done" /\ uOut' = [uOut EXCEPT !.status = 400]
  /\ UNCHANGED <<dedupVars, fetchVars, uIn, procVars, indexVars, vecVars>>

\* POST /schemes from the store write on: a rejected mongoAddScheme is
\* thrown on to the 500 reply; saveSchemesToFile catches its own error, so
\* the file branch goes on either way; then addSchemeToVectorDB and 201
AdminCreated ==
  /\ uPc = "writing"
  /\ IF uIn.mongo /\ ~uIn.writeOk
     THEN /\ uOut' = [uOut EXCEPT !.status = 500]
          /\ UNCHANGED indexVars
     ELSE /\ SetIndex(AddSchemeToVectorDB(Index, llmKind, uIn.scheme, "up", "ok").ix)
          /\ uOut' = [status |-> 201, stored |-> uIn.writeOk, upserts |-> 1]
          /\ UNCHANGED llmKind
  /\ uPc' = "done"
  /\ UNCHANGED <<dedupVars, fetchVars, uIn, procVars, vecVars>>

\* PUT /schemes/:id: 404 for an unknown id, else the record is replaced in
\* the array and schemes.json is written; no call of the vector index
AdminUpdate ==
  /\ uPc = "start" /\ uIn.op = "update"
  /\ uOut' = IF ~uIn.found THEN [uOut EXCEPT !.status = 404]
             ELSE IF uIn.writeOk THEN [status |-> 200, stored |-> TRUE, upserts |-> 0]
             ELSE [uOut EXCEPT !.status = 500]
  /\ uPc' = "done"
  /\ UNCHANGED <<dedupVars, fetchVars, uIn, procVars, indexVars, vecVars>>

InitAdmin ==
  /\ DedupIdle
  /\ FetchIdle
  /\ ProcIdle
  /\ uIn \in AdminRequests
  /\ uOut = [status |-> 0, stored |-> FALSE, upserts |-> 0]
  /\ uPc = "start"
  /\ llmKind = "simple"
  /\ collection = "undefined"
  /\ chroma = <<>>
  /\ inMemoryVectors = <<>>
  /\ inMemoryEmbeddings = <<>>
  /\ vPc = "readyFallback"
  /\ vLog = NoLog
  /\ upserted = [id \in VecIds |-> <<>>]

SpecAdmin == InitAdmin /\ [][AdminCreate \/ AdminCreated \/ AdminUpdate]_vars

-----------------------------------------------------------------------------
(* hasDataChanged on drawn datasets (SpecChanged) *)

MaxData == 2     \* longest dataset drawn for hasDataChanged

\* records as hasDataChanged reads them: an id and a lastUpdated stamp
ChangeRecords == [id : {"a", "b"}, lastUpdated : {1, 2}]

ChangeData == UNION { [1..n -> ChangeRecords] : n \in 0..MaxData }

\* hasDataChanged(uIn.newData, uIn.existingData)
ChangedCall ==
  /\ uPc = "start"
  /\ uOut' = HasDataChanged(uIn.newData, uIn.existingData)
  /\ uPc' = "done"
  /\ UNCHANGED <<dedupVars, fetchVars, uIn, procVars, indexVars, vecVars>>

InitChanged ==
  /\ DedupIdle
  /\ FetchIdle
  /\ ProcIdle
  /\ uIn \in [newData : ChangeData, existingData : ChangeData]
  /\ uOut = <<>>
  /\ uPc = "start"
  /\ llmKind = "simple"
  /\ collection = "undefined"
  /\ chroma = <<>>
  /\ inMemoryVectors = <<>>
  /\ inMemoryEmbeddings = <<>>
  /\ vPc = "readyFallback"
  /\ vLog = NoLog
  /\ upserted = [id \in VecIds |-> <<>>]

SpecChanged == InitChanged /\ [][ChangedCall]_vars

-----------------------------------------------------------------------------
(* cleanAndDeduplicateData on names with surrounding whitespace (SpecTrim) *)

\* names: plain, upper-case, and the plain one with a trailing or leading blank
TrimNames == { <<"a">>, <<"A">>, <<"a", " ">>, <<" ", "a">> }
\* categories: absent, and the literal the cleaning puts in its place
TrimCategories == { <<>>, General }

TrimInputs ==
  UNION { { [i \in 1..n |-> DedupRecord(i, nm[i], ct[i])] :
              nm \in [1..n -> TrimNames], ct \in [1..n -> TrimCategories] } :
          n \in 0..MaxLen }

InitTrim ==
  /\ dInput \in TrimInputs
  /\ dOutput = <<>>
  /\ dPc = "start"
  /\ FetchIdle
  /\ UnitIdle
  /\ ProcIdle
  /\ llmKind = "simple"
  /\ collection = "undefined"
  /\ chroma = <<>>
  /\ inMemoryVectors = <<>>
  /\ inMemoryEmbeddings = <<>>
  /\ vPc = "client"
  /\ vLog = NoLog
  /\ upserted = [id \in VecIds |-> <<>>]

SpecTrim == InitTrim /\ [][DedupClean]_vars

-----------------------------------------------------------------------------
(* The in-process index from one suspension point to the next (SpecMem) *)

\* the three callers that push to the in-process arrays
MemWorkers == {"populate", "batch", "upsert"}

\* a caller before its first await: at the first scheme of its list
MemStart == [next |-> 1, awaiting |-> FALSE, text |-> CreateSchemeText(DbSchemes[1])]

\* `const schemeText = createSchemeText(scheme)` and the call of
\* generateEmbedding(schemeText): the caller is suspended at the await
MemRequest ==
  \E w \in MemWorkers :
    /\ ~uOut.at[w].awaiting
    /\ uOut.at[w].next <= Len(uIn[w])
    /\ uOut' = [uOut EXCEPT !.at[w].awaiting = TRUE,
                            !.at[w].text = CreateSchemeText(uIn[w][uOut.at[w].next])]
    /\ UNCHANGED <<dedupVars, fetchVars, uIn, uPc, procVars, indexVars, vecVars>>

\* the await settles: inMemoryVectors.push({...}) and
\* inMemoryEmbeddings.push(embedding), then the next turn of the loop
MemResume ==
  \E w \in MemWorkers, env \in EmbedEnvs(llmKind) :
    /\ uOut.at[w].awaiting
    /\ SetIndex(PushAll(Index, << uIn[w][uOut.at[w].next] >>,
                        << ServiceEmbedding(llmKind, uOut.at[w].text, env) >>))
    /\ uOut' = [uOut EXCEPT !.at[w].awaiting = FALSE, !.at[w].next = @ + 1]
    /\ UNCHANGED <<dedupVars, fetchVars, uIn, uPc, procVars, llmKind, vecVars>>

\* searchInMemoryVectors(queryEmbedding, limit) between two suspension points
MemSearch ==
  \E q \in VecQueries, env \in EmbedEnvs(llmKind), limit \in 1..MaxLimit :
    /\ uOut' = [uOut EXCEPT
                  !.query = q,
                  !.search = SearchInMemoryVectors(inMemoryVectors, inMemoryEmbeddings,
                                ServiceEmbedding(llmKind, q, env), limit).results]
    /\ uPc' = "searched"
    /\ UNCHANGED <<dedupVars, fetchVars, uIn, procVars, indexVars, vecVars>>

\* no external collection, both arrays empty; startup population of
\* getAllSchemes(), one batch and one admin upsert are about to run
InitMem ==
  /\ DedupIdle
  /\ FetchIdle
  /\ ProcIdle
  /\ uIn \in [populate : {DbSchemes}, batch : VecBatches,
              upsert : {<<sch>> : sch \in VecSchemes}]
  /\ uOut = [at |-> [w \in MemWorkers |-> MemStart],
             query |-> CreateSchemeText(DbSchemes[1]), search |-> <<>>]
  /\ uPc = "start"
  /\ llmKind \in {"simple", "huggingface"}
  /\ collection = "undefined"
  /\ chroma = <<>>
  /\ inMemoryVectors = <<>>
  /\ inMemoryEmbeddings = <<>>
  /\ vPc = "readyFallback"
  /\ vLog = NoLog
  /\ upserted = [id \in VecIds |-> <<>>]

SpecMem == InitMem /\ [][MemRequest \/ MemResume \/ MemSearch]_vars

-----------------------------------------------------------------------------
(* Properties *)

\* C1 (as stated): at any time at most one trainRAGModel run is in progress
\* in the process, whichever of the four entry points started it.
C1_AtMostOneRun == Cardinality({t \in Tasks : InRun(t)}) <= 1

\* the state part of C2: the flag is set exactly while a handler of the
\* scheduler service is at work, the two handlers are never at work together,
\* a forceTraining() turned away ended with 'Training already in progress'
\* thrown to its caller, and a scheduled trigger turned away ended with no error
C2_State ==
  /\ isTraining <=> \E t \in SchedulerTasks : task[t].pc # "idle"
  /\ ~(task["cron"].pc # "idle" /\ task["force"].pc # "idle")
  /\ task["force"].outcome = "rejected" =>
       task["force"].error = AlreadyInProgress /\ task["force"].raised
  /\ task["cron"].outcome = "skipped" =>
       task["cron"].error = "none" /\ ~task["cron"].raised

\* the step part of C2: a trigger of the scheduler service that arrives while
\* the other handler is at work ends at once (rejected or skipped), starts and
\* queues nothing, and leaves the flag and every other caller as they are
C2_Step ==
  \A t \in SchedulerTasks :
    ( /\ starts' = starts + 1
      /\ task'[t] # task[t]
      /\ \E u \in SchedulerTasks \ {t} : task[u].pc # "idle" )
    => /\ task'[t].pc = "idle"
       /\ task'[t].outcome = (IF t = "force" THEN "rejected" ELSE "skipped")
       /\ task'[t].calls = task[t].calls + 1
       /\ isTraining'
       /\ \A u \in Tasks \ {t} : task'[u] = task[u]
       /\ UNCHANGED <<snapshot, dataFile, indexVars>>

\* C2: while a run started by the scheduler service is in progress,
\* forceTraining() is rejected with 'Training already in progress' and
\* performScheduledTraining() returns silently; no second run starts or is
\* queued, and the flag stays set until the running handler itself ends.
C2_SchedulerTurnsAway == []C2_State /\ [][C2_Step]_vars

\* C2 happens: forceTraining() was rejected while the scheduled handler is
\* inside its trainRAGModel run, the flag still set
C2_Witness ==
  /\ task["force"].outcome = "rejected"
  /\ InRun("cron")
  /\ isTraining

\* the texts the store in use holds under scheme id `id`
EntriesOf(id) == {i \in 1..Len(ActiveEntries) : ActiveEntries[i].id = id}

\* C3 (as stated): after any sequence of adds the index holds exactly one
\* entry per scheme id that was stored, and it has the content of the latest
\* upsert of that id.
C3_OneEntryPerId ==
  Ready =>
    \A id \in VecIds :
      upserted[id] # <<>> =>
        /\ Cardinality(EntriesOf(id)) = 1
        /\ \A i \in EntriesOf(id) : ActiveEntries[i].text = upserted[id][1]

\* no caller but POST /retrain has done anything
OnlyRetrain == \A t \in Tasks \ {"retrain"} : task[t].pc = "idle" /\ task[t].calls = 0

\* C4 (as stated): of two successive retrain calls over unchanged sources that
\* both return, the first runs the full pipeline and the second returns the
\* no-op result without writing the snapshot.
C4_FirstTrainsSecondSkips ==
  ( /\ OnlyRetrain
    /\ task["retrain"].pc = "idle"
    /\ task["retrain"].calls = 2
    /\ task["retrain"].firstOutcome # "error"
    /\ task["retrain"].outcome # "error" )
  => /\ task["retrain"].firstOutcome = "trained"
     /\ task["retrain"].outcome = "noop"
     /\ ~task["retrain"].wrote

\* C5: searchSimilarSchemes never raises to its caller, and returns the empty
\* list when the store in use is empty, when embedding the query fails, when
\* the external query fails, or when a stored vector cannot be compared.
C5_SearchNeverRaises ==
  vLog.op = "search" =>
    /\ ~vLog.raised
    /\ (vLog.cause \in {"embed", "query", "compare"} \/ Len(ActiveEntries) = 0)
         => vLog.results = <<>>

\* C5 happens: a search met stored vectors of another length than the query's
C5_Witness ==
  /\ vLog.op = "search"
  /\ vLog.cause = "compare"
  /\ Len(ActiveEntries) > 0
  /\ vLog.results = <<>>

\* C6 (as stated): once initializeVectorDB has failed at some step, every
\* later search and add uses the in-process store.
C6_FallbackIsFinal ==
  (vPc = "readyFallback" /\ vLog.op \in {"search", "add", "addBatch"})
    => vLog.backend \in {"memory", "none"}

\* C7 (as stated): all vectors of the store in use, and every query vector
\* compared with them, have one dimension.
C7_OneDimension ==
  Ready =>
    /\ Cardinality({ActiveEntries[i].dim : i \in 1..Len(ActiveEntries)}) <= 1
    /\ (vLog.op = "search" /\ vLog.qdim # 0) =>
         \A i \in 1..Len(ActiveEntries) : ActiveEntries[i].dim = vLog.qdim

\* the state part of C8: an invocation whose trainRAGModel run threw wrote no
\* snapshot, ended as an error naming the failed stage, and, for every caller
\* that has one, the error was handed on
C8_State ==
  \A t \in Tasks :
    task[t].runError # "none" =>
      /\ task[t].runError \in {"acquisition", "processing", "examples"}
      /\ ~task[t].wrote
      /\ "validation" \notin {task[t].stages[i] : i \in 1..Len(task[t].stages)}
      /\ task[t].outcome = "error"
      /\ task[t].error = task[t].runError
      /\ (t # "cron" => task[t].raised)

\* the step part of C8: the step in which a run throws leaves
\* training_results.json as it is
C8_Step ==
  \A t \in Tasks :
    (InRun(t) /\ task'[t].pc = "idle" /\ task'[t].runError # "none")
      => snapshot' = snapshot

\* C8: a run that raises before validation leaves the persisted snapshot
\* exactly as it was and its error reaches the caller.
C8_FailedRunKeepsSnapshot == []C8_State /\ [][C8_Step]_vars

\* C8 happens: a run failed in processing while the snapshot of an earlier
\* run is on disk
C8_Witness ==
  \E t \in Tasks :
    /\ task[t].runError = "processing"
    /\ task[t].pc = "idle"
    /\ snapshot.exists

\* the positions of the input records with the composite key of record i
SameKey(i) == {j \in 1..Len(dInput) : DedupKey(dInput[j]) = DedupKey(dInput[i])}

\* the positions of the input records with the lower-cased name and category
\* of record i
SameNameAndCategory(i) ==
  {j \in 1..Len(dInput) :
     /\ ToLowerCase(dInput[j].name) = ToLowerCase(dInput[i].name)
     /\ ToLowerCase(dInput[j].category) = ToLowerCase(dInput[i].category)}

\* the output records built from the input records at the positions in js
BuiltFrom(js) ==
  {k \in 1..Len(dOutput) : \E j \in js : dOutput[k].id = dInput[j].id}

Min(js) == CHOOSE j \in js : \A k \in js : j <= k

IdsOf(recs) == [i \in 1..Len(recs) |-> recs[i].id]

\* the two sources that cannot fail, deduplicated: NSP, then PM Kisan
LiteralIds == <<"nsp-merit-scholarship", "pm-kisan-samman-nidhi">>

CeilDiv(n, b) == (n + b - 1) \div b

RECURSIVE Flatten(_)
\* the concatenation of a sequence of sequences
Flatten(ss) == IF ss = <<>> THEN <<>> ELSE Head(ss) \o Flatten(Tail(ss))

\* no collection.add of the call was rejected
ChunksAllAccepted ==
  \A k \in 1..CeilDiv(Len(uIn.schemes), uIn.batchSize) : uIn.outcomes[k] = "ok"

C12_LaterChunksAttempted ==
  uPc = "done" =>
    /\ Len(uOut.batches) = CeilDiv(Len(uIn.schemes), uIn.batchSize)
    /\ Flatten(uOut.batches) = IdsOf(uIn.schemes)

\* C13: when the batch add raises, trainVectorDatabase calls
\* addSchemeToVectorDB once for every processed record, in order, whichever
\* of them fail; it never raises, and the run goes on to validation and
\* returns its result.
C13_FallbackTriesEveryRecord ==
  uPc = "done" =>
    /\ ~uOut.raised
    /\ uOut.result.validationResults.totalTestQueries = Len(TestQueries)
    /\ uOut.fellBack <=>
         \E k \in 1..CeilDiv(Len(uIn.schemes), uIn.batchSize) : uIn.outcomes[k] = "error"
    /\ uOut.fellBack => uOut.attempted = IdsOf(uIn.schemes)
    /\ ~uOut.fellBack => uOut.attempted = <<>>

\* C13 happens: the batch raised, and of three records the first and the
\* third failed again while the second was stored
C13_Witness ==
  /\ uPc = "done"
  /\ uOut.fellBack
  /\ uOut.attempted = <<"r1", "r2", "r3">>
  /\ uOut.failed = <<"r1", "r3">>
  /\ "r2" \in {chroma[i].id : i \in 1..Len(chroma)}

\* what the run returns on the same records when every add is accepted and
\* the validation queries end as qo
AllStoredResult(qo) ==
  LET n  == Len(uIn.schemes)
      up == [i \in 1..n |-> "up"]
      ok == [i \in 1..n |-> "ok"]
      t  == TrainVectorDatabase([Index EXCEPT !.chroma = <<>>], llmKind, uIn.schemes,
                                uIn.batchSize, up, ok, up, ok) IN
  RunResult(uIn.schemes, QueriesPerScheme * n,
            ValidateTraining(t.ix, llmKind, [i \in 1..Len(TestQueries) |-> "up"],
                             [i \in 1..Len(TestQueries) |-> qo]))

\* C14 (as stated): a run in which some record could not be stored returns a
\* result that tells so: it differs from every result the run returns on the
\* same records when all of them are stored.
C14_FailuresShowInResult ==
  (uPc = "done" /\ uOut.failed # <<>>) =>
    \A qo \in {"ok", "error"} : uOut.result # AllStoredResult(qo)

RunStages == <<"acquisition", "processing", "examples", "ingestion", "validation", "save">>

\* s is an initial part of t
IsPrefix(s, t) == Len(s) <= Len(t) /\ s = SubSeq(t, 1, Len(s))

\* the run of task t has returned its result
Returned(rec) == rec.retTotal >= 0

\* the run of task t has thrown
Threw(rec) == rec.runError # "none"

\* C15, at every state: the stages a run has completed are an initial part of
\* acquisition, processing, examples, ingestion, validation, save (so in that
\* order and none twice), a run waiting at a step has completed exactly the
\* steps before it, a returned result means all six were completed, and no
\* run both returned and threw.
C15_State ==
  \A t \in Tasks :
    /\ IsPrefix(task[t].stages, RunStages)
    /\ task[t].pc = "trainFetch"  => task[t].stages = <<>>
    /\ task[t].pc = "trainLocal"  => task[t].stages = SubSeq(RunStages, 1, 1)
    /\ task[t].pc = "trainIngest" => task[t].stages = SubSeq(RunStages, 1, 3)
    /\ task[t].pc = "trainSave"   => task[t].stages = SubSeq(RunStages, 1, 5)
    /\ Returned(task[t]) => task[t].stages = RunStages
    /\ Threw(task[t]) => task[t].stages # RunStages
    /\ ~(Returned(task[t]) /\ Threw(task[t]))
    /\ InRun(t) => ~Returned(task[t]) /\ ~Threw(task[t])

\* C15, at every step: a run in progress only adds stages at the end of those
\* it has completed, and the step that ends it either returns the result or
\* throws.
C15_Step ==
  \A t \in Tasks :
    InRun(t) =>
      /\ IsPrefix(task[t].stages, task'[t].stages)
      /\ task'[t].pc \notin TrainPcs => (Returned(task'[t]) # Threw(task'[t]))

\* C15: in every training run the stages occur in the order acquisition,
\* processing, example generation, ingestion, validation, snapshot save, each
\* after the one before it has completed and none twice, and the run ends in
\* exactly one of success (result returned) and failure (error thrown).
C15_StagesInOrder == []C15_State /\ [][C15_Step]_vars

\* C15 happens: one run went through all six stages and returned, another
\* threw after its acquisition
C15_Witness ==
  \E t, u \in Tasks :
    /\ task[t].stages = RunStages /\ Returned(task[t])
    /\ task[u].stages = SubSeq(RunStages, 1, 1) /\ Threw(task[u])

\* C17 (as stated): with USE_LOCAL_DATA=true a training run calls no network
\* fetcher, so no run has completed fetchAllSchemeData as a step of its own,
\* and no run is failed by an error of fetchAllSchemeData.
C17_OverrideBypassesFetch ==
  useLocalData =>
    \A t \in Tasks :
      /\ task[t].pc # "trainLocal"
      /\ task[t].runError # "acquisition"

\* C18: generateEmbedding(text) for a string never raises, and whenever the
\* configured backend does not answer it returns the hash embedding of the
\* same text.
C18_EmbeddingAlwaysReturns ==
  \A k \in 1..Len(uOut) :
    /\ ~uOut[k].raised
    /\ uOut[k].env = "down" =>
         /\ uOut[k].via = "hash"
         /\ uOut[k].vector = SimpleEmbedding(uIn.text, HashDim)

\* C18 happens: the backend did not answer for the text "a B", and the hash
\* embedding with its components 97 and 98 set came back
C18_Witness ==
  /\ uIn.text = <<"a", " ", "B">>
  /\ llmKind = "ollama"
  /\ \E k \in 1..Len(uOut) :
       /\ uOut[k].env = "down"
       /\ ~uOut[k].raised
       /\ uOut[k].vector[98] = 1 /\ uOut[k].vector[99] = 1

RECURSIVE SumRange(_, _, _)
\* v[lo] + ... + v[hi]
SumRange(v, lo, hi) ==
  IF lo > hi THEN 0
  ELSE IF lo = hi THEN v[lo]
  ELSE LET mid == (lo + hi) \div 2 IN SumRange(v, lo, mid) + SumRange(v, mid + 1, hi)

\* the calls that returned a hash embedding
HashCalls == {k \in 1..Len(uOut) : uOut[k].via = "hash"}

QueryVector == ServiceEmbedding(llmKind, uIn.query, uIn.env)

\* the score of the i-th stored vector against the query
ScoreOf(i) == Similarity(QueryVector, inMemoryEmbeddings[i])

\* f names, for every result, a stored vector of its own: the one whose id
\* and metadata the result carries and whose score it has
Explains(f) ==
  /\ \A i, j \in DOMAIN f : i # j => f[i] # f[j]
  /\ \A i \in DOMAIN f :
       /\ uOut.results[i].id = inMemoryVectors[f[i]].id
       /\ uOut.results[i].metadata = inMemoryVectors[f[i]].metadata
       /\ uOut.results[i].score = ScoreOf(f[i])
  /\ \A j \in 1..Len(inMemoryVectors) :
       j \notin {f[i] : i \in DOMAIN f} =>
         \A i \in DOMAIN f : ScoreOf(j) <= uOut.results[i].score

ReturnedExactly(v) ==
  /\ ~uOut.threw
  /\ uOut.off = 0
  /\ uOut.dot * uOut.dot = v * v * uOut.normA2 * uOut.normB2
  /\ (v > 0 => uOut.dot > 0) /\ (v < 0 => uOut.dot < 0)

\* the value a call returned lies in [-1, 1]
ReturnedInRange ==
  /\ ~uOut.threw
  /\ uOut.dot * uOut.dot <= uOut.normA2 * uOut.normB2
  /\ uOut.dot * uOut.dot = uOut.normA2 * uOut.normB2 => uOut.off <= 0

\* C21 (as stated): for equal-length vectors cosineSimilarity(a, b) lies in
\* [-1, 1], is exactly 0 when a or b has zero norm, and is 1 for b = a with
\* a non-zero.
C21_CosineBounds ==
  uPc = "done" =>
    /\ ReturnedInRange
    /\ (Dot(uIn.a, uIn.a) = 0 \/ Dot(uIn.b, uIn.b) = 0) => ReturnedExactly(0)
    /\ (uIn.a = uIn.b /\ Dot(uIn.a, uIn.a) # 0) => ReturnedExactly(1)

\* C22 (as stated): in fetchAllSchemeData every source's fetch is started
\* before any source's fetch has completed, and the merge happens only after
\* all of them have completed.
C22_FanOutFanIn ==
  /\ uOut.completed # <<>> => Len(uOut.started) = Len(FetchOrder)
  /\ uOut.merged => Len(uOut.completed) = Len(FetchOrder)

\* C23 (as stated): a call that generates an embedding through the remote
\* backend always completes, whatever the backend does.
C23_RemoteEmbeddingCompletes == <>(uPc = "done")

\* C24 (as stated): every successful admin create and update is followed by
\* exactly one upsert into the vector index, issued after the store write
\* succeeded; a failed store write issues no upsert.
C24_OneUpsertAfterStore ==
  uPc = "done" =>
    /\ uOut.status \in {200, 201} => (uOut.stored /\ uOut.upserts = 1)
    /\ ~uOut.stored => uOut.upserts = 0

\* the scheduled invocation ends in this step
CronEnds == task["cron"].pc # "idle" /\ task'["cron"].pc = "idle"

\* C25 (as stated): a scheduled trigger that fires while no run is active and
\* the last persisted training is more than 24 hours old, or there is none,
\* runs the training pipeline: no such invocation ends as a no-op with the
\* snapshot still as old or still missing.
C25_StaleTriggerTrains ==
  [][(CronEnds /\ TrainedLongAgo(snapshot')) => task'["cron"].outcome # "noop"]_vars

\* how many records of the dataset are the record r
CountOf(data, r) == Cardinality({i \in 1..Len(data) : data[i] = r})

\* nothing was added, removed or restamped: the two datasets hold the same
\* (id, lastUpdated) records, each as many times
SameRecords(newData, existingData) ==
  \A r \in ChangeRecords : CountOf(newData, r) = CountOf(existingData, r)

C27_SnapshotCountsSchemes ==
  (uPc = "done" /\ ~uOut.raised /\ uOut.wrote)
    => /\ snapshot.exists
       /\ snapshot.totalSchemes = uOut.result.totalSchemes
       /\ snapshot.totalSchemes = Len(uIn.schemes)

\* C28 (as stated): no two records of the output of cleanAndDeduplicateData
\* have the same lower-cased name and category as they stand in the output,
\* names differing by surrounding whitespace and an empty category next to
\* 'General' included.
C28_OutputKeysUnique ==
  dPc = "done" =>
    \A i, j \in 1..Len(dOutput) :
      (/\ ToLowerCase(dOutput[i].name) = ToLowerCase(dOutput[j].name)
       /\ ToLowerCase(dOutput[i].category) = ToLowerCase(dOutput[j].category))
        => i = j

\* a run started by the scheduler service is executing
ServiceRunning == \E t \in SchedulerTasks : task[t].pc # "idle"

\* the invocation t of the scheduler service ends in this step
ServiceRunEnds(t) == task[t].pc # "idle" /\ task'[t].pc = "idle"

\* the end of a scheduler run clears the flag; a scheduled run raises nothing,
\* a forced run raises exactly when it failed
C29_Step ==
  \A t \in SchedulerTasks :
    ServiceRunEnds(t) =>
      /\ ~isTraining'
      /\ task'[t].outcome \in {"trained", "noop", "notNeeded", "error"}
      /\ t = "cron" => ~task'[t].raised
      /\ t = "force" => (task'[t].raised <=> task'[t].error # "none")

SamePosition(i) ==
  /\ inMemoryEmbeddings[i].text = inMemoryVectors[i].text
  /\ inMemoryVectors[i].text = CreateSchemeText(inMemoryVectors[i].metadata)
  /\ inMemoryVectors[i].id = inMemoryVectors[i].metadata.id

\* C30: under every interleaving of startup population, batch ingestion and
\* admin upsert at their awaits, inMemoryVectors and inMemoryEmbeddings have
\* the same length and position i of both belongs to the same scheme; a search
\* run between two suspension points gives every result the metadata of the
\* scheme whose embedding was scored.
C30_ArraysAligned ==
  /\ Len(inMemoryVectors) = Len(inMemoryEmbeddings)
  /\ \A i \in 1..Len(inMemoryVectors) : SamePosition(i)
  /\ \A k \in 1..Len(uOut.search) :
       /\ \E i \in 1..Len(inMemoryVectors) :
            uOut.search[k].metadata = inMemoryVectors[i].metadata
       /\ uOut.search[k].score = 1 <=>
            CreateSchemeText(uOut.search[k].metadata) = uOut.query

\* the three callers interleaved: the upsert pushed first, the batch second,
\* the startup population is suspended at its await, and a search in between
\* returned two results with different scores
C30_Witness ==
  /\ Len(inMemoryVectors) = 2
  /\ inMemoryVectors[1] = MemoryVector(uIn.upsert[1])
  /\ uIn.batch # <<>> /\ inMemoryVectors[2] = MemoryVector(uIn.batch[1])
  /\ uOut.at["populate"].awaiting
  /\ Len(uOut.search) = 2
  /\ uOut.search[1].score # uOut.search[2].score

====
